---------------------------- MODULE Spec2Model ----------------------------
(***************************************************************************)
(* Verification model of @webtoolz/ts-sdk: the JSON parser front end       *)
(* (safeJsonParse, parser.ts), the structural differ (compareJson,         *)
(* convertDiff, formatPath, differ.ts), the formatter (minifyJson,         *)
(* formatJson, getJsonStats, formatter.ts), the validator (validateJson,   *)
(* validateJsonSchema and its cache of compiled schemas, addSchema,        *)
(* removeSchema, clearSchemaCache, validator.ts) and the share codec       *)
(* (compress, decompress, fitsInPayload, codec.ts, and encode, decode,     *)
(* isShareableSize of the encoder).                                        *)
(*                                                                         *)
(* Text is a sequence of one-character strings, so that scanning,          *)
(* serialising and pointer escaping are computed character by character.   *)
(* A JSON value is a record tagged by k:                                   *)
(*   null | bool(b) | num(n) | str(s) | arr(items) | obj(keys, vals)       *)
(* An object keeps its keys in insertion order (keys[i] maps to vals[i]).  *)
(* The tag "fn" stands for a function inherited from Object.prototype: it  *)
(* is not a JSON value, but it is what obj[key] yields for an inherited    *)
(* name such as "toString" that the object does not own.                   *)
(***************************************************************************)
EXTENDS Integers, Sequences, FiniteSets, TLC

VARIABLES
  left, right, result,        \* compareJson: its two texts and what it returned
  jsonText, parsed, output,   \* safeJsonParse and the formatter on one text
  stats, validation,          \* getJsonStats and validateJson on that text
  payload, link, compressed, decompressed, decoded,  \* the share codec
  jsonInput, encoding, shareable, unpacked, returned,  \* the encoder, and both round trips
  schemaCache, ajv,           \* the validator: compiled schemas, and the schemas Ajv knows
  dataText, schemaText,       \* the texts the caller of the validator holds
  call, calls                 \* the last call of the validator, and how many were made

vars == <<left, right, result, jsonText, parsed, output, stats, validation,
          payload, link, compressed, decompressed, decoded,
          jsonInput, encoding, shareable, unpacked, returned,
          schemaCache, ajv, dataText, schemaText, call, calls>>

differVars == <<left, right, result>>

parserVars == <<jsonText, parsed, output, stats, validation>>

shareVars == <<payload, link, compressed, decompressed, decoded,
               jsonInput, encoding, shareable, unpacked, returned>>

validatorVars == <<schemaCache, ajv, dataText, schemaText, call, calls>>

---------------------------------------------------------------------------
(* Bounds of the explored inputs *)

MaxLen == 2

MaxKeys == 2

MaxDepth == 2

---------------------------------------------------------------------------
(* Values *)

JNull == [k |-> "null"]

JBool(b) == [k |-> "bool", b |-> b]

JNum(n) == [k |-> "num", n |-> n]

\* Infinity or -Infinity, the number an overflowing literal parses to
JInf(neg) == [k |-> "inf", neg |-> neg]

JStr(s) == [k |-> "str", s |-> s]

JArr(items) == [k |-> "arr", items |-> items]

JObj(keys, vals) == [k |-> "obj", keys |-> keys, vals |-> vals]

JFn == [k |-> "fn"]

IsComposite(v) == v.k \in {"arr", "obj"}

\* leftData === null || typeof leftData !== "object"
IsPrimitive(v) == ~IsComposite(v)

\* typeof v === "object" (true of null, arrays and objects)
TypeofObject(v) == v.k \in {"null", "arr", "obj"}

IsArray(v) == v.k = "arr"

\* JavaScript truthiness of a parsed value
Truthy(v) ==
  CASE v.k = "null" -> FALSE
    [] v.k = "bool" -> v.b
    [] v.k = "num" -> v.n # 0
    [] v.k = "str" -> v.s # <<>>
    [] OTHER -> TRUE

\* x === y for values of two separately parsed documents: primitives are
\* compared by type and value, two composites are never the same reference.
StrictEq(x, y) ==
  /\ x.k = y.k
  /\ x.k \in {"null", "bool", "num", "inf", "str"}
  /\ x = y

---------------------------------------------------------------------------
(* Characters and decimal numbers *)

Digits == <<"0", "1", "2", "3", "4", "5", "6", "7", "8", "9">>

DigitChars == {Digits[i] : i \in 1..10}

DigitVal(c) == CHOOSE d \in 0..9 : Digits[d + 1] = c

RECURSIVE NatToText(_)
\* String(n) for a non-negative integer
NatToText(n) ==
  IF n < 10 THEN <<Digits[n + 1]>>
  ELSE NatToText(n \div 10) \o <<Digits[(n % 10) + 1]>>

IntToText(n) == IF n < 0 THEN <<"-">> \o NatToText(-n) ELSE NatToText(n)

\* characters beyond ASCII: U+00E9 and the no-break space take two bytes
\* in UTF-8, U+20AC three, U+1F600 (a surrogate pair in the string) four;
\* a lone surrogate is encoded as U+FFFD, three bytes
Utf8Bytes(c) ==
  CASE c \in {"<U+00E9>", "<NBSP>"} -> 2
    [] c \in {"<U+20AC>", "<U+D800>"} -> 3
    [] c = "<U+1F600>" -> 4
    [] OTHER -> 1

\* the UTF-16 code units of a character, what String.length counts
Utf16Units(c) == IF c = "<U+1F600>" THEN 2 ELSE 1

RECURSIVE SumBytes(_, _)
SumBytes(s, i) == IF i > Len(s) THEN 0 ELSE Utf8Bytes(s[i]) + SumBytes(s, i + 1)

RECURSIVE SumUnits(_, _)
SumUnits(s, i) == IF i > Len(s) THEN 0 ELSE Utf16Units(s[i]) + SumUnits(s, i + 1)

RECURSIVE TextToNat(_)
\* Number(digits) for a non-empty run of decimal digits
TextToNat(s) ==
  IF Len(s) = 0 THEN 0
  ELSE 10 * TextToNat(SubSeq(s, 1, Len(s) - 1)) + DigitVal(s[Len(s)])

---------------------------------------------------------------------------
(* jsonc-parser scanner, as parse() of parser.ts drives it.  A token is    *)
(* [tok, val, off, next, serr]: kind, decoded value, 0-based offset of its *)
(* first character, 1-based position after it, and the scan error.         *)

IsWhiteSpace(c) == c \in {" ", "\t"}

IsLineBreak(c) == c \in {"\n", "\r"}

IsDigit(c) == c \in DigitChars

IsUnknownContentCharacter(c) ==
  /\ ~IsWhiteSpace(c)
  /\ ~IsLineBreak(c)
  /\ c \notin {"}", "]", "{", "[", "\"", ":", ",", "/"}

Tok(tok, val, p, next, serr) ==
  [tok |-> tok, val |-> val, off |-> p - 1, next |-> next, serr |-> serr]

RECURSIVE WhiteSpaceEnd(_, _)
WhiteSpaceEnd(text, p) ==
  IF p <= Len(text) /\ IsWhiteSpace(text[p]) THEN WhiteSpaceEnd(text, p + 1) ELSE p

RECURSIVE DigitsEnd(_, _)
DigitsEnd(text, p) ==
  IF p <= Len(text) /\ IsDigit(text[p]) THEN DigitsEnd(text, p + 1) ELSE p

RECURSIVE WordEnd(_, _)
WordEnd(text, p) ==
  IF p <= Len(text) /\ IsUnknownContentCharacter(text[p]) THEN WordEnd(text, p + 1) ELSE p

RECURSIVE LineEnd(_, _)
LineEnd(text, p) ==
  IF p <= Len(text) /\ ~IsLineBreak(text[p]) THEN LineEnd(text, p + 1) ELSE p

RECURSIVE BlockCommentEnd(_, _)
\* position after the comment and whether it was closed
BlockCommentEnd(text, p) ==
  IF p < Len(text)
  THEN IF text[p] = "*" /\ text[p + 1] = "/"
       THEN [next |-> p + 2, closed |-> TRUE]
       ELSE BlockCommentEnd(text, p + 1)
  ELSE [next |-> p + 1, closed |-> FALSE]

\* what scanNumber returns: the literal from p up to last, the position
\* after the consumed characters, the scan error
NumberScan(text, p, last, next, serr) ==
  [val |-> SubSeq(text, p, last), next |-> next, serr |-> serr]

\* scanNumber: the digits of the exponent are due at signEnd
ScanExponentDigits(text, p, fracEnd, signEnd) ==
  IF signEnd <= Len(text) /\ IsDigit(text[signEnd])
  THEN NumberScan(text, p, DigitsEnd(text, signEnd) - 1, DigitsEnd(text, signEnd), 0)
  ELSE NumberScan(text, p, fracEnd - 1, signEnd, 3)

\* scanNumber: an exponent may start at fracEnd; the sign test of the
\* source binds as (a && b) || c
ScanExponent(text, p, fracEnd) ==
  IF ~(fracEnd <= Len(text) /\ text[fracEnd] \in {"e", "E"})
  THEN NumberScan(text, p, fracEnd - 1, fracEnd, 0)
  ELSE ScanExponentDigits(text, p, fracEnd,
         IF (fracEnd + 1 <= Len(text) /\ text[fracEnd + 1] = "+")
            \/ (fracEnd + 1 <= Len(text) /\ text[fracEnd + 1] = "-")
         THEN fracEnd + 2 ELSE fracEnd + 1)

\* scanNumber: a fraction may start at intEnd
ScanFraction(text, p, intEnd) ==
  IF intEnd <= Len(text) /\ text[intEnd] = "."
  THEN IF intEnd + 1 <= Len(text) /\ IsDigit(text[intEnd + 1])
       THEN ScanExponent(text, p, DigitsEnd(text, intEnd + 1))
       ELSE NumberScan(text, p, intEnd, intEnd + 1, 3)
  ELSE ScanExponent(text, p, intEnd)

\* scanNumber: p is the position of the first digit
ScanNumber(text, p) ==
  ScanFraction(text, p, IF text[p] = "0" THEN p + 1 ELSE DigitsEnd(text, p + 1))

EscapeChars == {"\"", "\\", "/", "b", "f", "n", "r", "t"}

EscapeValue(c) ==
  CASE c = "n" -> "\n"
    [] c = "r" -> "\r"
    [] c = "t" -> "\t"
    [] c = "b" -> "<BS>"
    [] c = "f" -> "\f"
    [] OTHER -> c

HexDigits == DigitChars \cup {"a", "b", "c", "d", "e", "f", "A", "B", "C", "D", "E", "F"}

\* scanHexDigits(4, true) finds four hexadecimal digits
HexDigitsAt(text, p) ==
  /\ p + 3 <= Len(text)
  /\ \A i \in p..(p + 3) : text[i] \in HexDigits

\* String.fromCharCode of four hexadecimal digits
FromCharCode(hex) ==
  CASE hex = <<"d", "8", "0", "0">> -> "<U+D800>"
    [] hex = <<"0", "0", "e", "9">> -> "<U+00E9>"
    [] hex = <<"2", "0", "a", "c">> -> "<U+20AC>"
    [] hex = <<"0", "0", "0", "8">> -> "<BS>"
    [] hex = <<"0", "0", "2", "2">> -> "\""
    [] OTHER -> "<U+FFFF>"

RECURSIVE ScanString(_, _, _, _)
\* scanString: p is the position after the opening quote
ScanString(text, p, acc, serr) ==
  IF p > Len(text) THEN [val |-> acc, next |-> p, serr |-> 2]
  ELSE IF text[p] = "\"" THEN [val |-> acc, next |-> p + 1, serr |-> serr]
  ELSE IF text[p] = "\\"
  THEN IF p + 1 > Len(text) THEN [val |-> acc, next |-> p + 1, serr |-> 2]
       ELSE IF text[p + 1] \in EscapeChars
       THEN ScanString(text, p + 2, Append(acc, EscapeValue(text[p + 1])), serr)
       ELSE IF text[p + 1] = "u"
       THEN IF HexDigitsAt(text, p + 2)
            THEN ScanString(text, p + 6, Append(acc, FromCharCode(SubSeq(text, p + 2, p + 5))), serr)
            ELSE ScanString(text, p + 2, acc, 4)
       ELSE ScanString(text, p + 2, acc, 5)
  ELSE IF IsLineBreak(text[p]) THEN [val |-> acc, next |-> p, serr |-> 2]
  ELSE IF text[p] = "\t" THEN ScanString(text, p + 1, Append(acc, text[p]), 6)
  ELSE ScanString(text, p + 1, Append(acc, text[p]), serr)

Punctuation(c) ==
  CASE c = "{" -> "OpenBrace"
    [] c = "}" -> "CloseBrace"
    [] c = "[" -> "OpenBracket"
    [] c = "]" -> "CloseBracket"
    [] c = ":" -> "Colon"
    [] c = "," -> "Comma"

Keyword(w) ==
  CASE w = <<"t", "r", "u", "e">> -> "True"
    [] w = <<"f", "a", "l", "s", "e">> -> "False"
    [] w = <<"n", "u", "l", "l">> -> "Null"
    [] OTHER -> "Unknown"

StringToken(p, str) == Tok("String", str.val, p, str.next, str.serr)

NumberToken(p, sign, n) == Tok("Number", sign \o n.val, p, n.next, n.serr)

BlockCommentToken(p, b) == Tok("BlockComment", <<>>, p, b.next, IF b.closed THEN 0 ELSE 1)

\* a run of content characters from p to before e: a keyword or unknown
WordToken(text, p, e) ==
  IF e # p
  THEN Tok(Keyword(SubSeq(text, p, e - 1)), SubSeq(text, p, e - 1), p, e, 0)
  ELSE Tok("Unknown", <<text[p]>>, p, p + 1, 0)

\* scanner.scan(): the token that starts at position p
Scan(text, p) ==
  IF p > Len(text) THEN Tok("EOF", <<>>, Len(text) + 1, p, 0)
  ELSE IF IsWhiteSpace(text[p]) THEN Tok("Trivia", <<>>, p, WhiteSpaceEnd(text, p), 0)
  ELSE IF IsLineBreak(text[p])
  THEN Tok("LineBreak", <<>>, p,
           IF text[p] = "\r" /\ p + 1 <= Len(text) /\ text[p + 1] = "\n"
           THEN p + 2 ELSE p + 1, 0)
  ELSE IF text[p] \in {"{", "}", "[", "]", ":", ","}
  THEN Tok(Punctuation(text[p]), <<>>, p, p + 1, 0)
  ELSE IF text[p] = "\""
  THEN StringToken(p, ScanString(text, p + 1, <<>>, 0))
  ELSE IF text[p] = "/"
  THEN IF p + 1 <= Len(text) /\ text[p + 1] = "/"
       THEN Tok("LineComment", <<>>, p, LineEnd(text, p + 2), 0)
       ELSE IF p + 1 <= Len(text) /\ text[p + 1] = "*"
       THEN BlockCommentToken(p, BlockCommentEnd(text, p + 2))
       ELSE Tok("Unknown", <<text[p]>>, p, p + 1, 0)
  ELSE IF text[p] = "-"
  THEN IF p + 1 > Len(text) \/ ~IsDigit(text[p + 1])
       THEN Tok("Unknown", <<text[p]>>, p, p + 1, 0)
       ELSE NumberToken(p, <<"-">>, ScanNumber(text, p + 1))
  ELSE IF IsDigit(text[p]) THEN NumberToken(p, <<>>, ScanNumber(text, p))
  ELSE WordToken(text, p, WordEnd(text, p))

---------------------------------------------------------------------------
(* jsonc-parser visit()/parse() with {disallowComments: true,              *)
(* allowTrailingComma: false}.  The parse recovers from errors and goes    *)
(* on: its state [t, errs] is the current token and the errors pushed so   *)
(* far, each [error, offset] with the code and the offset of the token     *)
(* that was current when it was reported.  A parse function returns        *)
(* [ok, val, s]: its boolean, the value it built and the state after it.   *)

ScanErrorCode(serr) ==
  CASE serr = 4 -> 14
    [] serr = 5 -> 15
    [] serr = 3 -> 13
    [] serr = 2 -> 12
    [] serr = 6 -> 16
    [] OTHER -> 0

St(t, errs) == [t |-> t, errs |-> errs]

Res(ok, val, s) == [ok |-> ok, val |-> val, s |-> s]

\* onError of parse(): errors.push({ error, offset, length })
OnError(errs, code, t) == Append(errs, [error |-> code, offset |-> t.off])

RECURSIVE NextTok(_, _, _)

\* scanNext reporting a comment as an unknown symbol
ScanNextTokenCommentSymbol(text, t, errs) ==
  IF t.tok \in {"LineComment", "BlockComment", "Unknown"}
  THEN NextTok(text, t.next, OnError(errs, 1, t))
  ELSE IF t.tok \in {"Trivia", "LineBreak"} THEN NextTok(text, t.next, errs)
  ELSE St(t, errs)

\* the token switch of scanNext: comments and unknown symbols are reported
\* and skipped, trivia is skipped, any other token is returned
ScanNextToken(text, t, errs) ==
  IF t.tok \in {"LineComment", "BlockComment"}
  THEN NextTok(text, t.next, OnError(errs, 10, t))
  ELSE IF t.tok = "Unknown" THEN NextTok(text, t.next, OnError(errs, 1, t))
  ELSE IF t.tok \in {"Trivia", "LineBreak"} THEN NextTok(text, t.next, errs)
  ELSE St(t, errs)

\* the scan-error switch of scanNext (an unclosed comment is not reported
\* here when comments are disallowed)
ScanNextError(text, t, errs) ==
  ScanNextToken(text, t,
    IF ScanErrorCode(t.serr) # 0 THEN OnError(errs, ScanErrorCode(t.serr), t) ELSE errs)

\* scanNext of visit() from position p
NextTok(text, p, errs) == ScanNextError(text, Scan(text, p), errs)

\* scanNext past the current token
Advance(text, s) == NextTok(text, s.t.next, s.errs)

RECURSIVE SkipTokens(_, _, _, _)
\* the while loop of handleError
SkipTokens(text, s, skipUntilAfter, skipUntil) ==
  IF s.t.tok = "EOF" THEN s
  ELSE IF s.t.tok \in skipUntilAfter THEN Advance(text, s)
  ELSE IF s.t.tok \in skipUntil THEN s
  ELSE SkipTokens(text, Advance(text, s), skipUntilAfter, skipUntil)

\* handleError(error, skipUntilAfter, skipUntil)
HandleError(text, s, code, skipUntilAfter, skipUntil) ==
  IF skipUntilAfter \cup skipUntil = {}
  THEN St(s.t, OnError(s.errs, code, s.t))
  ELSE SkipTokens(text, St(s.t, OnError(s.errs, code, s.t)), skipUntilAfter, skipUntil)

RECURSIVE LeadingDigits(_)
LeadingDigits(val) ==
  IF Len(val) = 0 \/ ~IsDigit(val[1]) THEN <<>> ELSE <<val[1]>> \o LeadingDigits(Tail(val))

\* Number(tokenValue) of an integer literal; of a literal with a fraction
\* only the integer part is kept (fractions are not represented)
NumberValue(val) ==
  IF val[1] = "-" THEN 0 - TextToNat(LeadingDigits(Tail(val)))
  ELSE TextToNat(LeadingDigits(val))

\* position of the exponent mark of a numeric literal, 0 when it has none
ExponentMark(val) ==
  IF \E i \in 1..Len(val) : val[i] \in {"e", "E"}
  THEN CHOOSE i \in 1..Len(val) : val[i] \in {"e", "E"}
  ELSE 0

\* the digits of the exponent when it is not negative, <<>> otherwise
ExponentDigits(val, mark) ==
  IF val[mark + 1] = "-" THEN <<>>
  ELSE IF val[mark + 1] = "+" THEN SubSeq(val, mark + 2, Len(val))
  ELSE SubSeq(val, mark + 1, Len(val))

\* the largest decimal exponent of a finite double (Number.MAX_VALUE is
\* 1.79e308): a non-zero literal of more integer digits parses to Infinity
MaxDecimalExponent == 308

\* Number(tokenValue) of the literal m e x, m a non-zero integer of len
\* digits.  Literals between 1e308 and Number.MAX_VALUE and finite values
\* above the integers of the model are not among the explored ones.
ScaledNumber(m, len, x) ==
  IF m = 0 THEN JNum(0)
  ELSE IF len + x > MaxDecimalExponent + 1 THEN JInf(m < 0)
  ELSE JNum(m * (10 ^ x))

\* Number(tokenValue) of a numeric literal
NumberLiteral(val) ==
  IF ExponentMark(val) = 0 THEN JNum(NumberValue(val))
  ELSE ScaledNumber(NumberValue(SubSeq(val, 1, ExponentMark(val) - 1)),
                    Len(LeadingDigits(IF val[1] = "-" THEN Tail(val) ELSE val)),
                    TextToNat(ExponentDigits(val, ExponentMark(val))))

RECURSIVE IndexOf(_, _, _)
\* position of x in seq at or after i, 0 when absent
IndexOf(seq, x, i) ==
  IF i > Len(seq) THEN 0
  ELSE IF seq[i] = x THEN i
  ELSE IndexOf(seq, x, i + 1)

\* currentParent[currentProperty] = value (onValue of parse())
SetProperty(obj, key, val) ==
  LET i == IndexOf(obj.keys, key, 1)
  IN IF i = 0
     THEN JObj(Append(obj.keys, key), Append(obj.vals, val))
     ELSE JObj(obj.keys, [obj.vals EXCEPT ![i] = val])

RECURSIVE ParseValue(_, _)
RECURSIVE ParseArrayLoop(_, _, _, _)
RECURSIVE ParseObjectLoop(_, _, _, _)

\* parseLiteral() and parseString(true): the value of a literal token
LiteralValue(t) ==
  CASE t.tok = "String" -> JStr(t.val)
    [] t.tok = "Number" -> NumberLiteral(t.val)
    [] t.tok = "Null" -> JNull
    [] t.tok = "True" -> JBool(TRUE)
    [] t.tok = "False" -> JBool(FALSE)

\* parseArray(): parseValue() returned r for an element
ArrayItemEnd(text, r, items) ==
  IF r.ok
  THEN ParseArrayLoop(text, r.s, Append(items, r.val), TRUE)
  ELSE ParseArrayLoop(text,
         HandleError(text, r.s, 4, {}, {"CloseBracket", "Comma"}), items, TRUE)

\* parseArray(): the closing bracket
ArrayEnd(text, s, items) ==
  IF s.t.tok # "CloseBracket"
  THEN Res(TRUE, JArr(items), HandleError(text, s, 8, {"CloseBracket"}, {}))
  ELSE Res(TRUE, JArr(items), Advance(text, s))

\* parseProperty(): parseValue() returned r for the value of key
PropertyEnd(text, r, obj, key) ==
  IF r.ok
  THEN Res(TRUE, SetProperty(obj, key, r.val), r.s)
  ELSE Res(TRUE, obj, HandleError(text, r.s, 4, {}, {"CloseBrace", "Comma"}))

\* parseProperty(): s is the state after the property name
PropertyColon(text, s, obj, key) ==
  IF s.t.tok = "Colon"
  THEN PropertyEnd(text, ParseValue(text, Advance(text, s)), obj, key)
  ELSE Res(TRUE, obj, HandleError(text, s, 5, {}, {"CloseBrace", "Comma"}))

\* parseProperty()
ParseProperty(text, s, obj) ==
  IF s.t.tok # "String"
  THEN Res(FALSE, obj, HandleError(text, s, 3, {}, {"CloseBrace", "Comma"}))
  ELSE PropertyColon(text, Advance(text, s), obj, s.t.val)

\* parseObject(): parseProperty() returned r
ObjectPropertyEnd(text, r) ==
  IF r.ok
  THEN ParseObjectLoop(text, r.s, r.val, TRUE)
  ELSE ParseObjectLoop(text,
         HandleError(text, r.s, 4, {}, {"CloseBrace", "Comma"}), r.val, TRUE)

\* parseObject(): the closing brace
ObjectEnd(text, s, obj) ==
  IF s.t.tok # "CloseBrace"
  THEN Res(TRUE, obj, HandleError(text, s, 7, {"CloseBrace"}, {}))
  ELSE Res(TRUE, obj, Advance(text, s))

\* parseValue(): s.t is the current token
ParseValue(text, s) ==
  IF s.t.tok = "OpenBracket"
  THEN ParseArrayLoop(text, Advance(text, s), <<>>, FALSE)
  ELSE IF s.t.tok = "OpenBrace"
  THEN ParseObjectLoop(text, Advance(text, s), JObj(<<>>, <<>>), FALSE)
  ELSE IF s.t.tok \in {"String", "Number", "Null", "True", "False"}
  THEN Res(TRUE, LiteralValue(s.t), Advance(text, s))
  ELSE Res(FALSE, JNull, s)

\* the while loop of parseArray() under allowTrailingComma: true
ParseArrayLoopTrailingComma(text, s, items, needsComma) ==
  IF s.t.tok \in {"CloseBracket", "EOF"} THEN ArrayEnd(text, s, items)
  ELSE IF s.t.tok = "Comma" /\ needsComma /\ Advance(text, s).t.tok = "CloseBracket"
  THEN ArrayEnd(text, Advance(text, s), items)
  ELSE IF s.t.tok = "Comma"
  THEN ArrayItemEnd(text,
         ParseValue(text,
           Advance(text, IF needsComma THEN s ELSE HandleError(text, s, 4, {}, {}))),
         items)
  ELSE ArrayItemEnd(text,
         ParseValue(text, IF needsComma THEN HandleError(text, s, 6, {}, {}) ELSE s),
         items)

\* the while loop of parseArray()
ParseArrayLoop(text, s, items, needsComma) ==
  IF s.t.tok \in {"CloseBracket", "EOF"} THEN ArrayEnd(text, s, items)
  ELSE IF s.t.tok = "Comma"
  THEN ArrayItemEnd(text,
         ParseValue(text,
           Advance(text, IF needsComma THEN s ELSE HandleError(text, s, 4, {}, {}))),
         items)
  ELSE ArrayItemEnd(text,
         ParseValue(text, IF needsComma THEN HandleError(text, s, 6, {}, {}) ELSE s),
         items)

\* the while loop of parseObject()
ParseObjectLoop(text, s, obj, needsComma) ==
  IF s.t.tok \in {"CloseBrace", "EOF"} THEN ObjectEnd(text, s, obj)
  ELSE IF s.t.tok = "Comma"
  THEN ObjectPropertyEnd(text,
         ParseProperty(text,
           Advance(text, IF needsComma THEN s ELSE HandleError(text, s, 4, {}, {})),
           obj))
  ELSE ObjectPropertyEnd(text,
         ParseProperty(text,
           IF needsComma THEN HandleError(text, s, 6, {}, {}) ELSE s, obj))

\* parse(): parseValue() returned r for the root
ParseRootEnd(text, r) ==
  IF ~r.ok THEN Res(FALSE, JNull, HandleError(text, r.s, 4, {}, {}))
  ELSE IF r.s.t.tok # "EOF" THEN Res(TRUE, r.val, HandleError(text, r.s, 9, {}, {}))
  ELSE r

\* parse(): s.t is the first token of the text
ParseRoot(text, s) ==
  IF s.t.tok = "EOF" THEN Res(FALSE, JNull, HandleError(text, s, 4, {}, {}))
  ELSE ParseRootEnd(text, ParseValue(text, s))

\* parse(input, errors, options): the value and the errors
JsoncParse(text) == ParseRoot(text, NextTok(text, 1, <<>>))

\* the errors array that parse() filled
ParseErrors(r) == r.s.errs

---------------------------------------------------------------------------
(* parser.ts *)

parseErrorMessages(code) ==
  CASE code = 1 -> "Invalid symbol"
    [] code = 2 -> "Invalid number format"
    [] code = 3 -> "Property name expected"
    [] code = 4 -> "Value expected"
    [] code = 5 -> "Colon expected"
    [] code = 6 -> "Comma expected"
    [] code = 7 -> "Closing brace expected"
    [] code = 8 -> "Closing bracket expected"
    [] code = 9 -> "End of file expected"
    [] code = 10 -> "Invalid comment token"
    [] code = 11 -> "Unexpected end of comment"
    [] code = 12 -> "Unexpected end of string"
    [] code = 13 -> "Unexpected end of number"
    [] code = 14 -> "Invalid unicode escape sequence"
    [] code = 15 -> "Invalid escape character"
    [] code = 16 -> "Invalid character"
    [] OTHER -> "Unknown parse error"

\* the characters String.prototype.trim removes, among those of the model
\* ("<NBSP>" stands for U+00A0, which is no white space of the scanner)
IsTrimmed(c) == c \in {" ", "\t", "\n", "\r", "<NBSP>"}

\* the empty string only
IsBlankEmptyOnly(input) == input = <<>>

\* !input.trim()
IsBlank(input) == \A i \in 1..Len(input) : IsTrimmed(input[i])

RECURSIVE CountNewlines(_, _)
CountNewlines(input, n) ==
  IF n = 0 THEN 0
  ELSE CountNewlines(input, n - 1) + (IF input[n] = "\n" THEN 1 ELSE 0)

RECURSIVE LastLineLength(_, _)
\* length of the last piece of input.substring(0, n).split("\n")
LastLineLength(input, n) ==
  IF n = 0 \/ input[n] = "\n" THEN 0 ELSE LastLineLength(input, n - 1) + 1

Min(a, b) == IF a < b THEN a ELSE b

\* a column counted from 0
offsetToLineColumnZeroBased(input, offset) ==
  LET n == Min(offset, Len(input))
  IN [line |-> CountNewlines(input, n) + 1, column |-> LastLineLength(input, n)]

offsetToLineColumn(input, offset) ==
  LET n == Min(offset, Len(input))
  IN [line |-> CountNewlines(input, n) + 1, column |-> LastLineLength(input, n) + 1]

NoData == [k |-> "undefined"]

NoError == [message |-> "", line |-> 0, column |-> 0]

\* the failure safeJsonParse returns for the first entry of errors
ParseFailure(message, lc) ==
  [success |-> FALSE, data |-> NoData,
   error |-> [message |-> message, line |-> lc.line, column |-> lc.column]]

\* the value built so far returned with the error
ParseOutcomePartial(input, r) ==
  IF Len(ParseErrors(r)) > 0
  THEN [success |-> FALSE, data |-> r.val,
        error |-> [message |-> parseErrorMessages(ParseErrors(r)[1].error),
                   line |-> offsetToLineColumn(input, ParseErrors(r)[1].offset).line,
                   column |-> offsetToLineColumn(input, ParseErrors(r)[1].offset).column]]
  ELSE [success |-> TRUE, data |-> r.val, error |-> NoError]

\* the last entry of errors reported
ParseOutcomeLastError(input, r) ==
  IF Len(ParseErrors(r)) > 0
  THEN ParseFailure(parseErrorMessages(ParseErrors(r)[Len(ParseErrors(r))].error),
                    offsetToLineColumn(input, ParseErrors(r)[Len(ParseErrors(r))].offset))
  ELSE [success |-> TRUE, data |-> r.val, error |-> NoError]

\* safeJsonParse after parse() returned r: errors[0] decides
ParseOutcome(input, r) ==
  IF Len(ParseErrors(r)) > 0
  THEN ParseFailure(parseErrorMessages(ParseErrors(r)[1].error),
                    offsetToLineColumn(input, ParseErrors(r)[1].offset))
  ELSE [success |-> TRUE, data |-> r.val, error |-> NoError]

safeJsonParse(input) ==
  IF IsBlank(input)
  THEN [success |-> FALSE, data |-> NoData,
        error |-> [message |-> "Input is empty", line |-> 1, column |-> 1]]
  ELSE ParseOutcome(input, JsoncParse(input))

---------------------------------------------------------------------------
(* JSON.stringify of a parsed value *)

RECURSIVE QuoteChars(_)
QuoteChars(s) ==
  IF s = <<>> THEN <<>>
  ELSE (CASE Head(s) = "\"" -> <<"\\", "\"">>
          [] Head(s) = "\\" -> <<"\\", "\\">>
          [] Head(s) = "\n" -> <<"\\", "n">>
          [] Head(s) = "\r" -> <<"\\", "r">>
          [] Head(s) = "\t" -> <<"\\", "t">>
          [] Head(s) = "\f" -> <<"\\", "f">>
          [] Head(s) = "<BS>" -> <<"\\", "b">>
          [] Head(s) = "<U+D800>" -> <<"\\", "u", "d", "8", "0", "0">>
          [] OTHER -> <<Head(s)>>) \o QuoteChars(Tail(s))

Quote(s) == <<"\"">> \o QuoteChars(s) \o <<"\"">>

RECURSIVE Stringify(_)
RECURSIVE StringifyItems(_, _)
RECURSIVE StringifyMembers(_, _, _)

Stringify(v) ==
  CASE v.k = "null" -> <<"n", "u", "l", "l">>
    [] v.k = "bool" -> IF v.b THEN <<"t", "r", "u", "e">> ELSE <<"f", "a", "l", "s", "e">>
    [] v.k = "num" -> IntToText(v.n)
    [] v.k = "inf" -> <<"n", "u", "l", "l">>
    [] v.k = "str" -> Quote(v.s)
    [] v.k = "arr" -> <<"[">> \o StringifyItems(v.items, 1) \o <<"]">>
    [] v.k = "obj" -> <<"{">> \o StringifyMembers(v.keys, v.vals, 1) \o <<"}">>

StringifyItems(items, i) ==
  IF i > Len(items) THEN <<>>
  ELSE (IF i > 1 THEN <<",">> ELSE <<>>) \o Stringify(items[i])
       \o StringifyItems(items, i + 1)

StringifyMembers(keys, vals, i) ==
  IF i > Len(keys) THEN <<>>
  ELSE (IF i > 1 THEN <<",">> ELSE <<>>) \o Quote(keys[i]) \o <<":">>
       \o Stringify(vals[i]) \o StringifyMembers(keys, vals, i + 1)

---------------------------------------------------------------------------
(* Property access on parsed values.  jsonc-parser builds plain objects    *)
(* ({}) and arrays ([]), so both inherit from Object.prototype.            *)

ToStringName == <<"t", "o", "S", "t", "r", "i", "n", "g">>

ValueOfName == <<"v", "a", "l", "u", "e", "O", "f">>

ConstructorName == <<"c", "o", "n", "s", "t", "r", "u", "c", "t", "o", "r">>

LengthName == <<"l", "e", "n", "g", "t", "h">>

\* function-valued properties of Object.prototype (those the model names)
ObjectPrototypeNames == {ToStringName, ValueOfName, ConstructorName}

\* a key that is the canonical text of an array index
IsIndexKey(key) ==
  /\ Len(key) > 0
  /\ \A i \in 1..Len(key) : IsDigit(key[i])
  /\ (Len(key) > 1 => key[1] # "0")

\* the enumerable own keys of a composite, as for...in yields them.  Object
\* keys come in insertion order (the keys of the explored documents are not
\* array indices, which would be enumerated first).
ForInKeys(v) ==
  IF v.k = "arr" THEN [i \in 1..Len(v.items) |-> NatToText(i - 1)]
  ELSE v.keys

HasOwn(v, key) ==
  IF v.k = "arr"
  THEN (IsIndexKey(key) /\ TextToNat(key) < Len(v.items)) \/ key = LengthName
  ELSE IndexOf(v.keys, key, 1) # 0

\* key in v
HasProperty(v, key) == HasOwn(v, key) \/ key \in ObjectPrototypeNames

\* v[key]
GetProperty(v, key) ==
  IF HasOwn(v, key)
  THEN IF v.k = "arr"
       THEN IF key = LengthName THEN JNum(Len(v.items)) ELSE v.items[TextToNat(key) + 1]
       ELSE v.vals[IndexOf(v.keys, key, 1)]
  ELSE IF key \in ObjectPrototypeNames THEN JFn
  ELSE NoData

\* ToPrimitive of a plain object throws a TypeError when neither valueOf nor
\* toString yields a primitive: the inherited valueOf returns the object
\* itself, and an own "toString" (a JSON value) is not callable.
ToPrimitiveThrows(v) == v.k = "obj" /\ HasOwn(v, ToStringName)

---------------------------------------------------------------------------
(* microdiff(obj, newObj), the dependency compareJson calls.  The result   *)
(* is [threw, diffs]; a difference is [type, path, value, oldValue] with   *)
(* path a sequence of segments, a key or an index.                         *)

KeySeg(key) == [t |-> "key", key |-> key]

IdxSeg(i) == [t |-> "idx", i |-> i]

Create(path, value) == [type |-> "CREATE", path |-> path, value |-> value]

Remove(path, oldValue) == [type |-> "REMOVE", path |-> path, oldValue |-> oldValue]

Change(path, value, oldValue) ==
  [type |-> "CHANGE", path |-> path, value |-> value, oldValue |-> oldValue]

\* const path = isObjArray ? +key : key
PathOf(container, key) ==
  IF IsArray(container) THEN IdxSeg(TextToNat(key)) ELSE KeySeg(key)

\* typeof objKey === "object" && typeof newObjKey === "object"
\*   && Array.isArray(objKey) === Array.isArray(newObjKey)
AreCompatibleObjects(a, b) ==
  TypeofObject(a) /\ TypeofObject(b) /\ (IsArray(a) <=> IsArray(b))

\* the guard of the recursion: objKey && newObjKey && areCompatibleObjects
\* (parsed values are no rich types and hold no cycles)
Recurses(a, b) == Truthy(a) /\ Truthy(b) /\ AreCompatibleObjects(a, b)

\* isNaN(objKey) ? objKey + "" === newObjKey + "" : +objKey === +newObjKey
\* is evaluated when objKey !== newObjKey and the two are compatible objects
\* of which one is null: it converts the other, a plain object, to a primitive
CoercionThrows(a, b) ==
  /\ ~StrictEq(a, b)
  /\ AreCompatibleObjects(a, b)
  /\ (ToPrimitiveThrows(a) \/ ToPrimitiveThrows(b))

\* the else-if that emits CHANGE: the coerced comparison of a plain object
\* with null is never an equality ("[object Object]" against "null", NaN
\* against 0)
Changed(a, b) == ~StrictEq(a, b)

Prefix(seg, diffs) == [i \in 1..Len(diffs) |-> [diffs[i] EXCEPT !.path = <<seg>> \o @]]

RECURSIVE Microdiff(_, _)
RECURSIVE DiffOldKeys(_, _, _, _, _)

\* the first loop: for (const key in obj)
DiffOldKeys(obj, newObj, keys, i, acc) ==
  IF i > Len(keys) THEN [threw |-> FALSE, diffs |-> acc]
  ELSE LET key == keys[i]
           objKey == GetProperty(obj, key)
           path == PathOf(obj, key)
       IN IF ~HasProperty(newObj, key)
          THEN DiffOldKeys(obj, newObj, keys, i + 1, Append(acc, Remove(<<path>>, objKey)))
          ELSE LET newObjKey == GetProperty(newObj, key)
               IN IF Recurses(objKey, newObjKey)
                  THEN LET sub == Microdiff(objKey, newObjKey)
                       IN IF sub.threw THEN [threw |-> TRUE, diffs |-> <<>>]
                          ELSE DiffOldKeys(obj, newObj, keys, i + 1,
                                           acc \o Prefix(path, sub.diffs))
                  ELSE IF CoercionThrows(objKey, newObjKey)
                  THEN [threw |-> TRUE, diffs |-> <<>>]
                  ELSE IF Changed(objKey, newObjKey)
                  THEN DiffOldKeys(obj, newObj, keys, i + 1,
                                   Append(acc, Change(<<path>>, newObjKey, objKey)))
                  ELSE DiffOldKeys(obj, newObj, keys, i + 1, acc)

RECURSIVE DiffNewKeys(_, _, _, _)
\* the second loop: for (const key in newObj) if (!(key in obj)) CREATE
DiffNewKeys(obj, newObj, keys, i) ==
  IF i > Len(keys) THEN <<>>
  ELSE (IF ~HasProperty(obj, keys[i])
        THEN <<Create(<<PathOf(newObj, keys[i])>>, GetProperty(newObj, keys[i]))>>
        ELSE <<>>) \o DiffNewKeys(obj, newObj, keys, i + 1)

Microdiff(obj, newObj) ==
  LET first == DiffOldKeys(obj, newObj, ForInKeys(obj), 1, <<>>)
  IN IF first.threw THEN first
     ELSE [threw |-> FALSE,
           diffs |-> first.diffs \o DiffNewKeys(obj, newObj, ForInKeys(newObj), 1)]

---------------------------------------------------------------------------
(* differ.ts *)

RECURSIVE ReplaceAll(_, _, _)
\* s.replace(/c/g, by) for a one-character pattern
ReplaceAll(s, c, by) ==
  IF s = <<>> THEN <<>>
  ELSE (IF Head(s) = c THEN by ELSE <<Head(s)>>) \o ReplaceAll(Tail(s), c, by)

\* String(segment)
SegmentText(seg) == IF seg.t = "idx" THEN NatToText(seg.i) ELSE seg.key

\* String(segment).replace(/~/g, "~0").replace(/\//g, "~1")
EscapeSegment(seg) == ReplaceAll(ReplaceAll(SegmentText(seg), "~", <<"~", "0">>), "/", <<"~", "1">>)

RECURSIVE JoinSegments(_, _)
\* pathArray.map(...).join("/")
JoinSegments(pathArray, i) ==
  IF i > Len(pathArray) THEN <<>>
  ELSE (IF i > 1 THEN <<"/">> ELSE <<>>) \o EscapeSegment(pathArray[i])
       \o JoinSegments(pathArray, i + 1)

\* the two replacements applied in the other order
EscapeSlashFirst(seg) ==
  ReplaceAll(ReplaceAll(SegmentText(seg), "/", <<"~", "1">>), "~", <<"~", "0">>)

RECURSIVE JoinSlashFirst(_, _)
JoinSlashFirst(pathArray, i) ==
  IF i > Len(pathArray) THEN <<>>
  ELSE (IF i > 1 THEN <<"/">> ELSE <<>>) \o EscapeSlashFirst(pathArray[i])
       \o JoinSlashFirst(pathArray, i + 1)

formatPathSlashFirst(pathArray) ==
  IF Len(pathArray) = 0 THEN <<"/">>
  ELSE <<"/">> \o JoinSlashFirst(pathArray, 1)

formatPath(pathArray) ==
  IF Len(pathArray) = 0 THEN <<"/">>
  ELSE <<"/">> \o JoinSegments(pathArray, 1)

\* CREATE and REMOVE taken for one another
convertDiffSwapped(diff) ==
  CASE diff.type = "CREATE" ->
         [type |-> "remove", path |-> formatPath(diff.path), oldValue |-> diff.value]
    [] diff.type = "REMOVE" ->
         [type |-> "add", path |-> formatPath(diff.path), newValue |-> diff.oldValue]
    [] diff.type = "CHANGE" ->
         [type |-> "update", path |-> formatPath(diff.path),
          oldValue |-> diff.oldValue, newValue |-> diff.value]

convertDiff(diff) ==
  CASE diff.type = "CREATE" ->
         [type |-> "add", path |-> formatPath(diff.path), newValue |-> diff.value]
    [] diff.type = "REMOVE" ->
         [type |-> "remove", path |-> formatPath(diff.path), oldValue |-> diff.oldValue]
    [] diff.type = "CHANGE" ->
         [type |-> "update", path |-> formatPath(diff.path),
          oldValue |-> diff.oldValue, newValue |-> diff.value]

NoErrorText == [kind |-> "none", message |-> ""]

\* the root rule applied only when both roots are primitives: a primitive
\* root then reaches microdiff, whose "key in newObj" throws on it
compareDataBothPrimitive(leftData, rightData) ==
  IF IsPrimitive(leftData) /\ IsPrimitive(rightData)
  THEN IF StrictEq(leftData, rightData)
       THEN [success |-> TRUE, differences |-> <<>>, error |-> NoErrorText]
       ELSE [success |-> TRUE,
             differences |-> <<[type |-> "update", path |-> <<"/">>,
                                oldValue |-> leftData, newValue |-> rightData]>>,
             error |-> NoErrorText]
  ELSE IF IsPrimitive(leftData) \/ IsPrimitive(rightData)
  THEN [success |-> FALSE, differences |-> <<>>,
        error |-> [kind |-> "Diff error", message |-> "Cannot use 'in' operator"]]
  ELSE LET diffs == Microdiff(leftData, rightData)
       IN IF diffs.threw
          THEN [success |-> FALSE, differences |-> <<>>,
                error |-> [kind |-> "Diff error",
                           message |-> "Cannot convert object to primitive value"]]
          ELSE [success |-> TRUE,
                differences |-> [i \in 1..Len(diffs.diffs) |-> convertDiff(diffs.diffs[i])],
                error |-> NoErrorText]

\* the root rule without its equality test: a primitive root always reported
compareDataAlwaysUpdate(leftData, rightData) ==
  IF IsPrimitive(leftData) \/ IsPrimitive(rightData)
  THEN [success |-> TRUE,
        differences |-> <<[type |-> "update", path |-> <<"/">>,
                           oldValue |-> leftData, newValue |-> rightData]>>,
        error |-> NoErrorText]
  ELSE compareDataBothPrimitive(leftData, rightData)

\* the root-primitive branch and the microdiff branch of the try block
compareData(leftData, rightData) ==
  IF IsPrimitive(leftData) \/ IsPrimitive(rightData)
  THEN IF Stringify(leftData) = Stringify(rightData)
       THEN [success |-> TRUE, differences |-> <<>>, error |-> NoErrorText]
       ELSE [success |-> TRUE,
             differences |-> <<[type |-> "update", path |-> <<"/">>,
                                oldValue |-> leftData, newValue |-> rightData]>>,
             error |-> NoErrorText]
  ELSE LET diffs == Microdiff(leftData, rightData)
       IN IF diffs.threw
          THEN [success |-> FALSE, differences |-> <<>>,
                error |-> [kind |-> "Diff error",
                           message |-> "Cannot convert object to primitive value"]]
          ELSE [success |-> TRUE,
                differences |-> [i \in 1..Len(diffs.diffs) |-> convertDiff(diffs.diffs[i])],
                error |-> NoErrorText]

\* the right text checked before the left one
compareParsedRightFirst(leftResult, rightResult) ==
  IF ~rightResult.success
  THEN [success |-> FALSE, differences |-> <<>>,
        error |-> [kind |-> "Right JSON is invalid", message |-> rightResult.error.message]]
  ELSE IF ~leftResult.success
  THEN [success |-> FALSE, differences |-> <<>>,
        error |-> [kind |-> "Left JSON is invalid", message |-> leftResult.error.message]]
  ELSE compareData(leftResult.data, rightResult.data)

\* compareJson after both texts went through safeJsonParse
compareParsed(leftResult, rightResult) ==
  IF ~leftResult.success
  THEN [success |-> FALSE, differences |-> <<>>,
        error |-> [kind |-> "Left JSON is invalid", message |-> leftResult.error.message]]
  ELSE IF ~rightResult.success
  THEN [success |-> FALSE, differences |-> <<>>,
        error |-> [kind |-> "Right JSON is invalid", message |-> rightResult.error.message]]
  ELSE compareData(leftResult.data, rightResult.data)

compareJson(l, r) == compareParsed(safeJsonParse(l), safeJsonParse(r))

---------------------------------------------------------------------------
(* The explored documents *)

KeyA == <<"a">>

KeyB == <<"b">>

KeyC == <<"c">>

KeyD == <<"d">>

\* a key that needs both escapes of a JSON pointer
KeyEsc == <<"~", "/">>

\* the key of the RFC 6901 test of the differ
KeyTest == <<"a", "~", "/", "b">>

\* the empty string, a key JSON allows
KeyEmpty == <<>>

Keys == <<KeyA, KeyEsc, ToStringName>>

ElemPrims == {JNull, JNum(1), JStr(<<"1">>)}

RootPrims == ElemPrims \cup {JBool(TRUE), JNum(42), JStr(<<"4", "2">>)}

SeqsUpTo(S, n) == UNION {[1..m -> S] : m \in 0..n}

\* the strictly increasing index sequences: key sequences in the order of Keys
KeySeqs(n) ==
  {[i \in 1..Len(is) |-> Keys[is[i]]] :
     is \in {js \in SeqsUpTo(1..Len(Keys), n) :
               \A i \in 1..Len(js) : \A j \in 1..Len(js) : i < j => js[i] < js[j]}}

Arrays(vals, n) == {JArr(items) : items \in SeqsUpTo(vals, n)}

Objects(vals, n) ==
  UNION {{JObj(ks, vs) : vs \in [1..Len(ks) -> vals]} : ks \in KeySeqs(n)}

\* composites of primitives
Flat == Arrays(ElemPrims, MaxLen) \cup Objects(ElemPrims, MaxKeys)

\* composites of at most one primitive, the leaves of the nested documents
Narrow == Arrays(ElemPrims, 1) \cup Objects(ElemPrims, 1)

Wrap(S) == {JArr(<<c>>) : c \in S} \cup {JObj(<<KeyEsc>>, <<c>>) : c \in S}

RECURSIVE Level(_)
\* documents of depth d exactly whose containers hold one composite
Level(d) == IF d <= 1 THEN Narrow ELSE Wrap(Level(d - 1))

\* documents of the tests and of the README
Examples ==
  { JObj(<<KeyA, KeyB, KeyC>>, <<JNum(1), JNum(2), JNum(3)>>),
    JObj(<<KeyA, KeyC, KeyD>>, <<JNum(10), JNum(3), JNum(4)>>),
    JObj(<<KeyTest>>, <<JNum(1)>>),
    JObj(<<KeyTest>>, <<JNum(2)>>),
    JObj(<<KeyEsc, KeyA>>, <<JNum(1), JNull>>),
    JArr(<<JNum(1), JNum(2), JNum(3)>>),
    JArr(<<JNum(0), JNum(1), JNum(2), JNum(3)>>),
    JArr(<<JObj(<<ToStringName>>, <<JNum(1)>>), JNum(1)>>),
    JObj(<<KeyEmpty>>, <<JNum(1)>>),
    JObj(<<KeyEmpty, KeyA>>, <<JNum(2), JNum(2)>>) }

Docs == RootPrims \cup Flat \cup UNION {Level(d) : d \in 2..MaxDepth} \cup Examples

\* texts that are no JSON
InvalidTexts ==
  { <<>>, <<" ">>, <<"{">>, <<"[", "1", ",", "]">>, <<"{", "a", "}">> }

\* the same document written with white space
Spaced(v) == <<" ">> \o Stringify(v) \o <<"\n">>

Texts ==
  {Stringify(v) : v \in Docs} \cup InvalidTexts \cup {Spaced(v) : v \in Level(MaxDepth)}

---------------------------------------------------------------------------
(* The state machine: a caller holds two texts and calls compareJson once. *)
(* compareJson keeps no state, so every call starts from such a state.    *)

Idle == [success |-> FALSE, differences |-> <<>>, error |-> [kind |-> "idle", message |-> ""]]

\* safeJsonParse not yet called
Unparsed == [success |-> FALSE, data |-> NoData,
             error |-> [message |-> "idle", line |-> 0, column |-> 0]]

\* the formatter not yet called
NoOutput == [fn |-> "none", threw |-> FALSE, text |-> <<>>, error |-> ""]

\* a string of the share codec: the characters of head, followed by count
\* copies of the characters of fill, followed by the characters of tail
Run(head, fill, count, tail) == [head |-> head, fill |-> fill, count |-> count, tail |-> tail]

\* a string that ends with its run of one character
Text(head, fill, count) == Run(head, <<fill>>, count, <<>>)

NoText == Text(<<>>, " ", 0)

\* an error of the codec: its message and, for "Unsupported version: ", the
\* text of the version that follows it
CodecError(message, v) == [message |-> message, v |-> v]

\* the codec not yet called
NoCodec == CodecError("idle", <<>>)

\* an encoded string: kind "blank" is the white space in text itself, "lz"
\* the output of compressToEncodedURIComponent(text), "junk" another
\* string that decompressFromEncodedURIComponent turns into text, and
\* "undecodable" one it turns into null
Link(kind, text) == [kind |-> kind, text |-> text]

NotCompressed == [success |-> FALSE, encoded |-> Link("blank", NoText), error |-> NoCodec]

NotDecompressed == [success |-> FALSE, data |-> NoData, error |-> NoCodec]

NotDecoded == [success |-> FALSE, json |-> NoData, error |-> NoCodec]

\* getJsonStats not yet called
NoStats == [threw |-> FALSE, valid |-> FALSE, size |-> 0, minifiedSize |-> 0,
            keys |-> 0, depth |-> 0, type |-> "none"]

\* validateJson not yet called
NoValidation == [valid |-> FALSE, errors |-> <<>>, called |-> FALSE]

ParserUnused ==
  /\ jsonText = <<>>
  /\ parsed = Unparsed
  /\ output = NoOutput
  /\ stats = NoStats
  /\ validation = NoValidation

\* the validator not yet called
\* (before and registry: the cache and the schemas of Ajv when it was made)
NoCall == [op |-> "none", schema |-> <<>>, id |-> <<>>, threw |-> "", result |-> NoValidation,
           before |-> <<>>, registry |-> [schemas |-> {}, refs |-> {}]]

ValidatorUnused ==
  /\ schemaCache = <<>>
  /\ ajv = [schemas |-> {}, refs |-> {}]
  /\ dataText = <<>>
  /\ schemaText = <<>>
  /\ call = NoCall
  /\ calls = 0

\* encode not yet called
NotEncoded == [success |-> FALSE, encoded |-> Link("blank", NoText), error |-> NoCodec]

\* isShareableSize and fitsInPayload not yet called
NotSized == [called |-> FALSE, shareable |-> FALSE, fits |-> FALSE]

ShareUnused ==
  /\ payload = NoText
  /\ link = Link("blank", NoText)
  /\ jsonInput = NoText
  /\ compressed = NotCompressed
  /\ decompressed = NotDecompressed
  /\ decoded = NotDecoded
  /\ encoding = NotEncoded
  /\ shareable = NotSized
  /\ unpacked = NotDecompressed
  /\ returned = NotDecoded

Init ==
  /\ left \in Texts
  /\ right \in Texts
  /\ result = Idle
  /\ ParserUnused
  /\ ShareUnused
  /\ ValidatorUnused

Compare ==
  /\ result = Idle
  /\ result' = compareJson(left, right)
  /\ UNCHANGED <<left, right, parserVars, shareVars, validatorVars>>

Next == Compare

Spec == Init /\ [][Next]_vars

---------------------------------------------------------------------------
(* What the claims speak of: the parsed roots, the entries, the pointer of *)
(* a location and the locations that two documents share.                  *)

L == safeJsonParse(left)

R == safeJsonParse(right)

Called == result # Idle

BothValid == L.success /\ R.success

Entries == result.differences

EntrySet == {Entries[i] : i \in 1..Len(Entries)}

EscapedChar(c) ==
  IF c = "~" THEN <<"~", "0">> ELSE IF c = "/" THEN <<"~", "1">> ELSE <<c>>

RECURSIVE EscapedKey(_)
EscapedKey(key) ==
  IF key = <<>> THEN <<>> ELSE EscapedChar(Head(key)) \o EscapedKey(Tail(key))

RECURSIVE PointerOf(_)
PointerOf(path) ==
  IF path = <<>> THEN <<>>
  ELSE <<"/">> \o (IF Head(path).t = "idx" THEN NatToText(Head(path).i)
                   ELSE EscapedKey(Head(path).key))
       \o PointerOf(Tail(path))

\* the pointer of a location: "/" and the escaped segments joined with "/"
Pointer(path) == IF path = <<>> THEN <<"/">> ELSE PointerOf(path)

KeySet(v) == {v.keys[i] : i \in 1..Len(v.keys)}

\* the value a document holds under an own key
Member(v, key) == v.vals[CHOOSE i \in 1..Len(v.keys) : v.keys[i] = key]

SameKindComposites(a, b) == IsComposite(a) /\ a.k = b.k

RECURSIVE Shared(_, _, _)
\* the locations both documents have, reached through containers of the
\* same kind, each with the value of either side
Shared(a, b, path) ==
  {[p |-> path, a |-> a, b |-> b]} \cup
  (IF a.k = "arr" /\ b.k = "arr"
   THEN UNION {Shared(a.items[i], b.items[i], Append(path, IdxSeg(i - 1))) :
                 i \in 1..Min(Len(a.items), Len(b.items))}
   ELSE IF a.k = "obj" /\ b.k = "obj"
   THEN UNION {Shared(Member(a, key), Member(b, key), Append(path, KeySeg(key))) :
                 key \in KeySet(a) \cap KeySet(b)}
   ELSE {})

RECURSIVE Locations(_, _)
\* every location of one document, with its value
Locations(v, path) ==
  {[p |-> path, v |-> v]} \cup
  (IF v.k = "arr"
   THEN UNION {Locations(v.items[i], Append(path, IdxSeg(i - 1))) : i \in 1..Len(v.items)}
   ELSE IF v.k = "obj"
   THEN UNION {Locations(Member(v, key), Append(path, KeySeg(key))) : key \in KeySet(v)}
   ELSE {})

EntriesAt(ptr) == {i \in 1..Len(Entries) : Entries[i].path = ptr}

\* ptr is a proper ancestor of the pointer q
Beneath(ptr, q) ==
  /\ ptr # <<"/">>
  /\ Len(q) > Len(ptr)
  /\ SubSeq(q, 1, Len(ptr)) = ptr
  /\ q[Len(ptr) + 1] = "/"

AddEntry(path, v) == [type |-> "add", path |-> Pointer(path), newValue |-> v]

RemoveEntry(path, v) == [type |-> "remove", path |-> Pointer(path), oldValue |-> v]

UpdateEntry(path, old, new) ==
  [type |-> "update", path |-> Pointer(path), oldValue |-> old, newValue |-> new]

---------------------------------------------------------------------------
(* The claims *)

ObjectComparison ==
  (Called /\ BothValid) =>
    \A s \in Shared(L.data, R.data, <<>>) :
      (s.a.k = "obj" /\ s.b.k = "obj") =>
        /\ \A key \in KeySet(s.a) \ KeySet(s.b) :
             RemoveEntry(Append(s.p, KeySeg(key)), Member(s.a, key)) \in EntrySet
        /\ \A key \in KeySet(s.b) \ KeySet(s.a) :
             AddEntry(Append(s.p, KeySeg(key)), Member(s.b, key)) \in EntrySet
        /\ \A key \in KeySet(s.a) \cap KeySet(s.b) :
             Member(s.a, key) = Member(s.b, key) =>
               EntriesAt(Pointer(Append(s.p, KeySeg(key)))) = {}

\* C3: a key or index present on both sides whose two values are not
\* composites of the same kind and differ has exactly one entry, the update
\* carrying both full values, and no entry beneath its path.
TypeChangeRule ==
  (Called /\ BothValid) =>
    \A s \in Shared(L.data, R.data, <<>>) :
      (s.p # <<>> /\ ~SameKindComposites(s.a, s.b) /\ s.a # s.b) =>
        /\ Cardinality(EntriesAt(Pointer(s.p))) = 1
        /\ UpdateEntry(s.p, s.a, s.b) \in EntrySet
        /\ \A i \in 1..Len(Entries) : ~Beneath(Pointer(s.p), Entries[i].path)

\* C4: wherever both sides hold an array, an index only the left has gives a
\* remove at that index, an index only the right has gives an add, and an
\* index both have is compared element against element; one new element put
\* in front of n distinct primitives gives n updates and one add.
ArrayComparisonPositional ==
  (Called /\ BothValid) =>
    \A s \in Shared(L.data, R.data, <<>>) :
      (s.a.k = "arr" /\ s.b.k = "arr") =>
        LET la == Len(s.a.items)
            lb == Len(s.b.items)
            At(i) == Append(s.p, IdxSeg(i - 1))
        IN /\ \A i \in (lb + 1)..la : RemoveEntry(At(i), s.a.items[i]) \in EntrySet
           /\ \A i \in (la + 1)..lb : AddEntry(At(i), s.b.items[i]) \in EntrySet
           /\ \A i \in 1..Min(la, lb) :
                (IsPrimitive(s.a.items[i]) /\ IsPrimitive(s.b.items[i])) =>
                  IF s.a.items[i] = s.b.items[i]
                  THEN EntriesAt(Pointer(At(i))) = {}
                  ELSE UpdateEntry(At(i), s.a.items[i], s.b.items[i]) \in EntrySet
           /\ ( /\ lb = la + 1
                /\ Tail(s.b.items) = s.a.items
                /\ \A i \in 1..lb : IsPrimitive(s.b.items[i])
                /\ \A i \in 1..lb : \A j \in 1..lb : i # j => s.b.items[i] # s.b.items[j] )
              => LET here == {i \in 1..Len(Entries) :
                                \E j \in 1..lb : Entries[i].path = Pointer(At(j))}
                 IN /\ Cardinality({i \in here : Entries[i].type = "update"}) = la
                    /\ Cardinality({i \in here : Entries[i].type = "add"}) = 1
                    /\ Cardinality(here) = la + 1

Mirrored(e) ==
  CASE e.type = "add" -> [type |-> "remove", path |-> e.path, oldValue |-> e.newValue]
    [] e.type = "remove" -> [type |-> "add", path |-> e.path, newValue |-> e.oldValue]
    [] e.type = "update" -> [type |-> "update", path |-> e.path,
                             oldValue |-> e.newValue, newValue |-> e.oldValue]

\* C7: for two different composite documents, compareJson(v1, v2) and
\* compareJson(v2, v1) have the same number of entries, each add of one a
\* remove of the other at the same path, each update an update with the
\* two values exchanged.
DiffSymmetry ==
  (Called /\ BothValid /\ IsComposite(L.data) /\ IsComposite(R.data) /\ L.data # R.data) =>
    LET back == compareJson(right, left).differences
        backSet == {back[i] : i \in 1..Len(back)}
    IN /\ Len(back) = Len(Entries)
       /\ \A e \in EntrySet : Mirrored(e) \in backSet
       /\ \A e \in backSet : Mirrored(e) \in EntrySet

\* C8: an add entry carries newValue and no oldValue, a remove entry
\* oldValue and no newValue, an update entry both, the old value taken from
\* the left document and the new value from the right document.
DiffEntryShape ==
  Called =>
    \A e \in EntrySet :
      /\ e.type = "add" => DOMAIN e = {"type", "path", "newValue"}
      /\ e.type = "remove" => DOMAIN e = {"type", "path", "oldValue"}
      /\ e.type = "update" =>
           /\ DOMAIN e = {"type", "path", "oldValue", "newValue"}
           /\ \E x \in Locations(L.data, <<>>) : e.path = Pointer(x.p) /\ e.oldValue = x.v
           /\ \E x \in Locations(R.data, <<>>) : e.path = Pointer(x.p) /\ e.newValue = x.v

\* C9: compareJson of two valid texts succeeds without an error; a failure
\* is returned only when one of the two texts fails to parse.
DifferNeverFails ==
  Called =>
    /\ BothValid => (result.success /\ result.error = NoErrorText)
    /\ ~result.success => ~BothValid

---------------------------------------------------------------------------
(* formatter.ts: minifyJson and formatJson on a string input.  A call      *)
(* returns [fn, threw, text]: the function, whether it threw "Invalid      *)
(* JSON input", and the text it returned.                                  *)

\* throw new Error("Invalid JSON input")
Threw(fn) == [fn |-> fn, threw |-> TRUE, text |-> <<>>, error |-> "Invalid JSON input"]

Returned(fn, text) == [fn |-> fn, threw |-> FALSE, text |-> text, error |-> ""]

\* minifyJson writing null for a text that does not parse
MinifyParsedLenient(r) ==
  IF ~r.success THEN Returned("minifyJson", <<"n", "u", "l", "l">>)
  ELSE Returned("minifyJson", Stringify(r.data))

\* minifyJson after safeJsonParse returned r: data === undefined throws
MinifyParsed(r) ==
  IF ~r.success THEN Threw("minifyJson") ELSE Returned("minifyJson", Stringify(r.data))

\* minifyJson of an input that is no string: the input is the data
minifyJsonValue(data) ==
  IF data = NoData THEN Threw("minifyJson") ELSE Returned("minifyJson", Stringify(data))

minifyJson(t) == MinifyParsed(safeJsonParse(t))

\* the printable ASCII characters in code order, from U+0020
CodeUnits ==
  << " ", "!", "\"", "#", "$", "%", "&", "'", "(", ")", "*", "+", ",", "-", ".", "/",
     "0", "1", "2", "3", "4", "5", "6", "7", "8", "9", ":", ";", "<", "=", ">", "?",
     "@", "A", "B", "C", "D", "E", "F", "G", "H", "I", "J", "K", "L", "M", "N", "O",
     "P", "Q", "R", "S", "T", "U", "V", "W", "X", "Y", "Z", "[", "\\", "]", "^", "_",
     "<GRAVE>", "a", "b", "c", "d", "e", "f", "g", "h", "i", "j", "k", "l", "m", "n", "o",
     "p", "q", "r", "s", "t", "u", "v", "w", "x", "y", "z", "{", "|", "}", "~" >>

\* order of two characters by code unit
CharBefore(c, d) == IndexOf(CodeUnits, c, 1) < IndexOf(CodeUnits, d, 1)

RECURSIVE KeyBefore(_, _)
\* a < b as Array.prototype.sort compares two strings by default
KeyBefore(a, b) ==
  IF b = <<>> THEN FALSE
  ELSE IF a = <<>> THEN TRUE
  ELSE IF a[1] = b[1] THEN KeyBefore(Tail(a), Tail(b))
  ELSE CharBefore(a[1], b[1])

RECURSIVE InsertKey(_, _)
InsertKey(sorted, key) ==
  IF sorted = <<>> THEN <<key>>
  ELSE IF KeyBefore(key, sorted[1]) THEN <<key>> \o sorted
  ELSE <<sorted[1]>> \o InsertKey(Tail(sorted), key)

RECURSIVE SortKeys(_)
\* Object.keys(obj).sort()
SortKeys(keys) ==
  IF keys = <<>> THEN <<>> ELSE InsertKey(SortKeys(Tail(keys)), keys[1])

RECURSIVE sortObjectKeys(_)

\* the object built by assigning the sorted keys in order
SortedObject(obj, keys) ==
  JObj(keys, [i \in 1..Len(keys) |-> sortObjectKeys(GetProperty(obj, keys[i]))])

sortObjectKeys(obj) ==
  IF obj.k = "arr"
  THEN JArr([i \in 1..Len(obj.items) |-> sortObjectKeys(obj.items[i])])
  ELSE IF obj.k = "obj" THEN SortedObject(obj, SortKeys(obj.keys))
  ELSE obj

\* " ".repeat(n)
Spaces(n) == [i \in 1..n |-> " "]

\* const indent = opts.indentChar === "tab" ? "\t" : " ".repeat(opts.indentSize)
IndentOf(opts) == IF opts.indentChar = "tab" THEN <<"\t">> ELSE Spaces(opts.indentSize)

\* JSON.stringify keeps the first characters of a string gap
MaxGap == 10

Gap(indent) == SubSeq(indent, 1, Min(Len(indent), MaxGap))

RECURSIVE StringifyPretty(_, _, _)
RECURSIVE PrettyItems(_, _, _, _)
RECURSIVE PrettyMembers(_, _, _, _, _)

\* JSON.stringify(v, null, gap) at the indentation ind
StringifyPretty(v, gap, ind) ==
  IF gap = <<>> THEN Stringify(v)
  ELSE IF v.k = "arr" /\ v.items # <<>>
  THEN <<"[", "\n">> \o PrettyItems(v.items, gap, ind \o gap, 1)
       \o <<"\n">> \o ind \o <<"]">>
  ELSE IF v.k = "obj" /\ v.keys # <<>>
  THEN <<"{", "\n">> \o PrettyMembers(v.keys, v.vals, gap, ind \o gap, 1)
       \o <<"\n">> \o ind \o <<"}">>
  ELSE Stringify(v)

PrettyItems(items, gap, ind, i) ==
  IF i > Len(items) THEN <<>>
  ELSE (IF i > 1 THEN <<",", "\n">> ELSE <<>>) \o ind
       \o StringifyPretty(items[i], gap, ind) \o PrettyItems(items, gap, ind, i + 1)

PrettyMembers(keys, vals, gap, ind, i) ==
  IF i > Len(keys) THEN <<>>
  ELSE (IF i > 1 THEN <<",", "\n">> ELSE <<>>) \o ind \o Quote(keys[i]) \o <<":", " ">>
       \o StringifyPretty(vals[i], gap, ind) \o PrettyMembers(keys, vals, gap, ind, i + 1)

\* formatJson after safeJsonParse returned r
FormatParsed(r, opts) ==
  IF ~r.success THEN Threw("formatJson")
  ELSE Returned("formatJson",
         StringifyPretty(IF opts.sortKeys THEN sortObjectKeys(r.data) ELSE r.data,
                         Gap(IndentOf(opts)), <<>>))

formatJson(t, opts) == FormatParsed(safeJsonParse(t), opts)

\* formatJson of an input that is no string: the input is the data
formatJsonValue(data, opts) ==
  IF data = NoData THEN Threw("formatJson")
  ELSE Returned("formatJson",
         StringifyPretty(IF opts.sortKeys THEN sortObjectKeys(data) ELSE data,
                         Gap(IndentOf(opts)), <<>>))

\* return formatJson(input, options)
beautifyJson(t, opts) == formatJson(t, opts)

\* indentSize: 2, indentChar: "space", sortKeys: false
DEFAULT_OPTIONS == [indentSize |-> 2, indentChar |-> "space", sortKeys |-> FALSE]

\* the options of the explored calls
FormatOptions ==
  { DEFAULT_OPTIONS,
    [DEFAULT_OPTIONS EXCEPT !.sortKeys = TRUE],
    [DEFAULT_OPTIONS EXCEPT !.indentChar = "tab"],
    [DEFAULT_OPTIONS EXCEPT !.indentSize = 0] }

---------------------------------------------------------------------------
(* getJsonStats (formatter.ts) and validateJson, isValidJson (validator.ts, *)
(* parser.ts)                                                              *)

RECURSIVE countKeys(_, _)
RECURSIVE CountKeysOfItems(_, _, _)
\* countKeys(obj, count): the keys of every object below obj added to count
countKeys(obj, count) ==
  IF ~IsComposite(obj) THEN count
  ELSE IF IsArray(obj) THEN CountKeysOfItems(obj.items, 1, count)
  ELSE CountKeysOfItems(obj.vals, 1, count + Len(obj.keys))

\* the reduce over the items of an array, the loop over the keys of an object
CountKeysOfItems(items, i, count) ==
  IF i > Len(items) THEN count
  ELSE CountKeysOfItems(items, i + 1, countKeys(items[i], count))

Max(a, b) == IF a >= b THEN a ELSE b

RECURSIVE getDepth(_, _)
RECURSIVE MaxDepthOfItems(_, _, _, _)
\* getDepth(obj, currentDepth)
getDepth(obj, currentDepth) ==
  IF ~IsComposite(obj) THEN currentDepth
  ELSE IF IsArray(obj)
  THEN IF Len(obj.items) = 0 THEN currentDepth + 1
       ELSE MaxDepthOfItems(obj.items, 1, currentDepth + 1, 0)
  ELSE IF Len(obj.vals) = 0 THEN currentDepth + 1
       ELSE MaxDepthOfItems(obj.vals, 1, currentDepth + 1, 0)

\* Math.max(...items.map((item) => getDepth(item, depth))) over at least
\* one item
MaxDepthOfItems(items, i, depth, deepest) ==
  IF i > Len(items) THEN deepest
  ELSE MaxDepthOfItems(items, i + 1, depth, Max(deepest, getDepth(items[i], depth)))

\* getType(obj)
getType(obj) ==
  CASE obj.k = "null" -> "null"
    [] obj.k = "arr" -> "array"
    [] obj.k = "obj" -> "object"
    [] obj.k = "str" -> "string"
    [] obj.k = "bool" -> "boolean"
    [] obj.k \in {"num", "inf"} -> "number"

\* new Blob([text]).size: the UTF-8 bytes of the text
BlobSize(text) == SumBytes(text, 1)

StatsThrew == [threw |-> TRUE, valid |-> FALSE, size |-> 0, minifiedSize |-> 0,
               keys |-> 0, depth |-> 0, type |-> "none"]

InvalidStats(input) ==
  [threw |-> FALSE, valid |-> FALSE, size |-> BlobSize(input), minifiedSize |-> 0,
   keys |-> 0, depth |-> 0, type |-> "invalid"]

\* the return of getJsonStats once minifyJson gave minified
StatsMinified(input, data, minified) ==
  IF minified.threw THEN StatsThrew
  ELSE [threw |-> FALSE, valid |-> TRUE, size |-> BlobSize(input),
        minifiedSize |-> BlobSize(minified.text),
        keys |-> countKeys(data, 0), depth |-> getDepth(data, 0), type |-> getType(data)]

\* minifyJson(result.data): minifyJson takes a string argument for a JSON
\* text and parses it, so a root that is a string is parsed once more
MinifyData(data) ==
  IF data.k = "str" THEN minifyJson(data.s) ELSE minifyJsonValue(data)

StatsOf(input, r) ==
  IF ~r.success \/ r.data = NoData THEN InvalidStats(input)
  ELSE StatsMinified(input, r.data, MinifyData(r.data))

getJsonStats(input) == StatsOf(input, safeJsonParse(input))

ValidationError(path, message, keyword, line, column) ==
  [path |-> path, message |-> message, keyword |-> keyword, line |-> line, column |-> column]

ValidationResult(valid, errors) == [valid |-> valid, errors |-> errors, called |-> TRUE]

ValidationOfAlwaysValid(r) == ValidationResult(TRUE, <<>>)

\* validateJson after safeJsonParse returned r
ValidationOf(r) ==
  IF ~r.success
  THEN ValidationResult(FALSE,
         <<ValidationError("", r.error.message, "syntax", r.error.line, r.error.column)>>)
  ELSE ValidationResult(TRUE, <<>>)

validateJson(input) == ValidationOf(safeJsonParse(input))

\* return safeJsonParse(input).success
isValidJson(input) == safeJsonParse(input).success

---------------------------------------------------------------------------
(* The parser, the formatter and the validator on one text: a caller holds *)
(* a text and makes one call on it.  The functions keep no state, so every *)
(* call starts from such a state.                                          *)

\* length of the texts enumerated over ShortAlphabet
MaxText == 3

ShortAlphabet == {"[", "]", "{", "}", ",", ":", "\"", "1", "0", "/", "a", "\n"}

ShortTexts == SeqsUpTo(ShortAlphabet, MaxText)

\* texts of the parser tests and texts with comments, trailing commas,
\* several errors, and literals that overflow
ParserExamples ==
  { <<"{", "\n", " ", " ", "\"", "a", "\"", ":", " ", "}">>,
    <<"{", "\"", "i", "n", "v", "a", "l", "i", "d", "\"", ":", " ", "}">>,
    <<"{", "\n", " ", " ", "\"", "a", "\"", ":", " ", "1", ",", "\n", " ", " ", "\"", "b", "\"", ":", " ", "u", "\n", "}">>,
    <<"{", "\"", "a", "\"", ":", " ", "1", ",", "}">>,
    <<"{", "'", "a", "'", ":", " ", "1", "}">>,
    <<"{", "a", ":", " ", "1", "}">>,
    <<"{", "\"", "a", "\"", ":", " ", "0", "1", "}">>,
    <<"[", "1", " ", "1", "]">>,
    <<"{", "\"", "a", "\"", " ", "\"", "b", "\"", "}">>,
    <<"/", "/", " ", "c", "\n", "1">>,
    <<"1", " ", "/", "*", " ", "c", " ", "*", "/">>,
    <<"/", "*", " ", "c", " ", "*", "/", " ", "1">>,
    <<"[", "1", ",", " ", "/", "*", " ", "c">>,
    <<"\"", "/", "/", "\"">>,
    <<"[", "\"", "/", "*", " ", "*", "/", "\"", "]">>,
    <<"1", "e", "9", "9", "9">>,
    <<"[", "-", "1", "e", "9", "9", "9", "]">>,
    <<"1", "e", "2">>,
    <<" ", " ", "\n", " ", " ", "{", "\"", "a", "\"", ":", " ", "\"", "b", "\"", "}", " ", " ", "\n", " ", " ">>,
    <<"[", "\n", " ", " ", "1", ",", "\n", " ", " ", "1", "\n", "]">>,
    <<"\"", "a", "\t", "b", "\"">>,
    <<"[", "1", ",", ",", "]">> }

\* texts that trim() empties
BlankTexts ==
  { <<" ", " ", " ", "\n", " ", " ", " ">>,
    <<"\t">>,
    <<"\r", "\n">>,
    <<" ", "<NBSP>", " ">> }

ParserTexts == ShortTexts \cup Texts \cup ParserExamples \cup BlankTexts

DifferUnused == left = <<>> /\ right = <<>> /\ result = Idle

InitParser ==
  /\ jsonText \in ParserTexts
  /\ parsed = Unparsed
  /\ output = NoOutput
  /\ stats = NoStats
  /\ validation = NoValidation
  /\ DifferUnused
  /\ ShareUnused
  /\ ValidatorUnused

\* no call made yet
Fresh ==
  /\ parsed = Unparsed
  /\ output = NoOutput
  /\ stats = NoStats
  /\ validation = NoValidation

Parse ==
  /\ Fresh
  /\ parsed' = safeJsonParse(jsonText)
  /\ UNCHANGED <<jsonText, output, stats, validation, differVars, shareVars, validatorVars>>

Minify ==
  /\ Fresh
  /\ output' = minifyJson(jsonText)
  /\ UNCHANGED <<jsonText, parsed, stats, validation, differVars, shareVars, validatorVars>>

Format ==
  /\ Fresh
  /\ \E opts \in FormatOptions : output' = formatJson(jsonText, opts)
  /\ UNCHANGED <<jsonText, parsed, stats, validation, differVars, shareVars, validatorVars>>

Beautify ==
  /\ Fresh
  /\ \E opts \in FormatOptions :
       output' = [beautifyJson(jsonText, opts) EXCEPT !.fn = "beautifyJson"]
  /\ UNCHANGED <<jsonText, parsed, stats, validation, differVars, shareVars, validatorVars>>

\* formatJson(undefined) and minifyJson(undefined): the text is not used
FormatUndefined ==
  /\ Fresh
  /\ \/ output' = [formatJsonValue(NoData, DEFAULT_OPTIONS) EXCEPT !.fn = "formatJson(undefined)"]
     \/ output' = [minifyJsonValue(NoData) EXCEPT !.fn = "minifyJson(undefined)"]
  /\ UNCHANGED <<jsonText, parsed, stats, validation, differVars, shareVars, validatorVars>>

Stats ==
  /\ Fresh
  /\ stats' = getJsonStats(jsonText)
  /\ UNCHANGED <<jsonText, parsed, output, validation, differVars, shareVars, validatorVars>>

Validate ==
  /\ Fresh
  /\ validation' = validateJson(jsonText)
  /\ UNCHANGED <<jsonText, parsed, output, stats, differVars, shareVars, validatorVars>>

NextParser == Parse \/ Minify \/ Format \/ Beautify \/ FormatUndefined \/ Stats \/ Validate

SpecParser == InitParser /\ [][NextParser]_vars

---------------------------------------------------------------------------
(* Properties of compareJson on unparsable input, of safeJsonParse and of  *)
(* the formatter                                                           *)

\* C11: when the left text does not parse, compareJson returns
\* success=false, no differences and "Left JSON is invalid: <message>",
\* also when the right text is invalid too; when only the right text does
\* not parse the error is "Right JSON is invalid: <message>"; a failure
\* never carries differences.
InvalidInputErrors ==
  Called =>
    /\ ~L.success =>
         result = [success |-> FALSE, differences |-> <<>>,
                   error |-> [kind |-> "Left JSON is invalid",
                              message |-> L.error.message]]
    /\ (L.success /\ ~R.success) =>
         result = [success |-> FALSE, differences |-> <<>>,
                   error |-> [kind |-> "Right JSON is invalid",
                              message |-> R.error.message]]
    /\ ~result.success => result.differences = <<>>

\* both texts invalid, with different messages, and the left one reported
InvalidInputErrorsWitness ==
  /\ Called
  /\ ~L.success
  /\ ~R.success
  /\ L.error.message # R.error.message
  /\ result.error.kind = "Left JSON is invalid"
  /\ result.error.message = L.error.message

ParseCalled == parsed # Unparsed

\* what parse() of jsonc-parser did with the text
Parsing == JsoncParse(jsonText)

Errs == ParseErrors(Parsing)

WhiteSpaceChars == {" ", "\t", "\n", "\r", "<NBSP>"}

OnlyWhiteSpace(t) == \A i \in 1..Len(t) : t[i] \in WhiteSpaceChars

\* the messages of the syntax-error table
SyntaxMessages == {parseErrorMessages(code) : code \in 1..16}

\* C12: safeJsonParse returns exactly one arm: success with data and no
\* error, or failure with an error (message, line, column) and no data;
\* what parse() built before an error is never returned.
ParseOutcomeOneArm ==
  ParseCalled =>
    \/ /\ parsed.success
       /\ parsed.data # NoData
       /\ parsed.error = NoError
       /\ Errs = <<>>
       /\ parsed.data = Parsing.val
    \/ /\ ~parsed.success
       /\ parsed.data = NoData
       /\ parsed.error.message # ""
       /\ parsed.error.line >= 1
       /\ parsed.error.column >= 1

\* parse() built the array [1] before it met an error, and no data is returned
ParseOutcomeOneArmWitness ==
  /\ ParseCalled
  /\ ~parsed.success
  /\ Errs # <<>>
  /\ Parsing.val = JArr(<<JNum(1)>>)
  /\ parsed.data = NoData

\* C13: an input that is empty or holds only white space (newlines
\* included) fails with "Input is empty" at line 1, column 1, never with a
\* message of the syntax-error table.
EmptyInputDistinction ==
  (ParseCalled /\ OnlyWhiteSpace(jsonText)) =>
    /\ parsed = [success |-> FALSE, data |-> NoData,
                 error |-> [message |-> "Input is empty", line |-> 1, column |-> 1]]
    /\ parsed.error.message \notin SyntaxMessages

\* white space with a newline in it
EmptyInputDistinctionWitness ==
  /\ ParseCalled
  /\ OnlyWhiteSpace(jsonText)
  /\ \E i \in 1..Len(jsonText) : jsonText[i] = "\n"
  /\ \E i \in 1..Len(jsonText) : jsonText[i] = " "
  /\ parsed.error.message = "Input is empty"

\* the "\n" characters among the first o characters of t
NewlinesBefore(t, o) == {i \in 1..o : t[i] = "\n"}

\* the characters between the last "\n" before offset o, or the start, and o
SinceLastNewline(t, o) ==
  IF NewlinesBefore(t, o) = {} THEN o
  ELSE o - (CHOOSE i \in NewlinesBefore(t, o) : \A j \in NewlinesBefore(t, o) : j <= i)

PositionOf(t, o) ==
  [line |-> Cardinality(NewlinesBefore(t, o)) + 1, column |-> SinceLastNewline(t, o) + 1]

ValueExpectedMultiline == <<"{", "\n", " ", " ", "\"", "a", "\"", ":", " ", "}">>

ValueExpectedInline == <<"{", "\"", "i", "n", "v", "a", "l", "i", "d", "\"", ":", " ", "}">>

\* C14: for every offset o of the text the reported line is the number of
\* "\n" before o plus one and the column the number of characters since
\* the last "\n" (or the start) plus one, both at least 1; the position of
\* a syntax error is that of its offset, e.g. '{\n  "a": }' fails with
\* "Value expected" at line 2, column 8 and '{"invalid": }' at line 1,
\* column 13.
PositionAccuracy ==
  /\ \A o \in 0..Len(jsonText) :
       /\ offsetToLineColumn(jsonText, o) = PositionOf(jsonText, o)
       /\ offsetToLineColumn(jsonText, o).line >= 1
       /\ offsetToLineColumn(jsonText, o).column >= 1
  /\ (ParseCalled /\ Errs # <<>> /\ ~OnlyWhiteSpace(jsonText)) =>
       /\ Errs[1].offset \in 0..Len(jsonText)
       /\ parsed.error.line = PositionOf(jsonText, Errs[1].offset).line
       /\ parsed.error.column = PositionOf(jsonText, Errs[1].offset).column
  /\ (ParseCalled /\ jsonText = ValueExpectedMultiline) =>
       parsed.error = [message |-> "Value expected", line |-> 2, column |-> 8]
  /\ (ParseCalled /\ jsonText = ValueExpectedInline) =>
       parsed.error = [message |-> "Value expected", line |-> 1, column |-> 13]

\* the error of the multi-line example, on its second line at the brace
PositionAccuracyWitness ==
  /\ ParseCalled
  /\ jsonText = ValueExpectedMultiline
  /\ jsonText[Errs[1].offset + 1] = "}"
  /\ parsed.error.line = 2
  /\ parsed.error.column = 8

\* C15: of several syntax errors safeJsonParse returns one, the first the
\* parser met, which has the smallest offset, with that error's message
\* and position.
FirstErrorOnly ==
  (ParseCalled /\ Errs # <<>> /\ ~OnlyWhiteSpace(jsonText)) =>
    /\ ~parsed.success
    /\ parsed.error.message = parseErrorMessages(Errs[1].error)
    /\ parsed.error.line = PositionOf(jsonText, Errs[1].offset).line
    /\ parsed.error.column = PositionOf(jsonText, Errs[1].offset).column
    /\ \A i \in 1..Len(Errs) : Errs[1].offset <= Errs[i].offset

\* two errors of different codes at different offsets
FirstErrorOnlyWitness ==
  /\ ParseCalled
  /\ Len(Errs) >= 2
  /\ Errs[2].error # Errs[1].error
  /\ Errs[2].offset > Errs[1].offset
  /\ parsed.error.message = parseErrorMessages(Errs[1].error)

\* position i of t is outside a string literal: an even number of
\* unescaped quotes precedes it
OutsideString(t, i) ==
  Cardinality({j \in 1..(i - 1) : t[j] = "\"" /\ (j = 1 \/ t[j - 1] # "\\")}) % 2 = 0

JsonWhiteSpace == {" ", "\t", "\n", "\r"}

HasComment(t) ==
  \E i \in 1..(Len(t) - 1) :
    t[i] = "/" /\ t[i + 1] \in {"/", "*"} /\ OutsideString(t, i)

HasTrailingComma(t) ==
  \E i \in 1..Len(t) : \E j \in (i + 1)..Len(t) :
    /\ t[i] = ","
    /\ OutsideString(t, i)
    /\ t[j] \in {"}", "]"}
    /\ \A k \in (i + 1)..(j - 1) : t[k] \in JsonWhiteSpace

HasSingleQuote(t) == \E i \in 1..Len(t) : t[i] = "'" /\ OutsideString(t, i)

IsLetter(c) == IndexOf(CodeUnits, c, 1) \in 66..91

HasUnquotedKey(t) ==
  \E i \in 2..Len(t) : \E j \in (i + 1)..Len(t) :
    /\ t[i - 1] \in {"{", ","}
    /\ OutsideString(t, i)
    /\ \A k \in i..(j - 1) : IsLetter(t[k])
    /\ t[j] = ":"

HasLeadingZero(t) ==
  \E i \in 1..(Len(t) - 1) :
    /\ t[i] = "0"
    /\ IsDigit(t[i + 1])
    /\ OutsideString(t, i)
    /\ (i = 1 \/ t[i - 1] \notin (DigitChars \cup {".", "e", "E", "+", "-"}))

\* C16: safeJsonParse never succeeds on an input with a comment outside a
\* string, a trailing comma before a closing brace or bracket, a
\* single-quoted string, an unquoted key or a number with a leading zero.
StrictGrammar ==
  (/\ ParseCalled
   /\ \/ HasComment(jsonText)
      \/ HasTrailingComma(jsonText)
      \/ HasSingleQuote(jsonText)
      \/ HasUnquotedKey(jsonText)
      \/ HasLeadingZero(jsonText))
  => ~parsed.success

\* an array whose only defect is its trailing comma
StrictGrammarWitness ==
  /\ ParseCalled
  /\ HasTrailingComma(jsonText)
  /\ ~HasComment(jsonText)
  /\ ~HasLeadingZero(jsonText)
  /\ jsonText[1] = "["
  /\ Len(Errs) = 1
  /\ parsed.error.message = "Value expected"

\* the text starts, after white space, with a comment
StartsWithComment(t) ==
  \E i \in 1..(Len(t) - 1) :
    /\ \A k \in 1..(i - 1) : t[k] \in JsonWhiteSpace
    /\ t[i] = "/"
    /\ t[i + 1] \in {"/", "*"}

\* C17 as stated: for no input does safeJsonParse report "Invalid comment
\* token" or "Unexpected end of comment".
CommentCodesUnused ==
  ParseCalled =>
    parsed.error.message \notin {"Invalid comment token", "Unexpected end of comment"}

\* C17: of the two comment codes only "Unexpected end of comment" is never
\* reported.  An input with a comment outside a string is rejected; when
\* the text starts with the comment the message is "Invalid comment token",
\* and whenever that message is reported the position is that of the first
\* character of a comment, closed or not.
CommentCodeReported ==
  ParseCalled =>
    /\ parsed.error.message # "Unexpected end of comment"
    /\ HasComment(jsonText) => ~parsed.success
    /\ StartsWithComment(jsonText) => parsed.error.message = "Invalid comment token"
    /\ parsed.error.message = "Invalid comment token" =>
         /\ Errs[1].error = 10
         /\ jsonText[Errs[1].offset + 1] = "/"
         /\ jsonText[Errs[1].offset + 2] \in {"/", "*"}

\* a block comment that is never closed, after a valid start of an array
CommentCodeReportedWitness ==
  /\ ParseCalled
  /\ parsed.error.message = "Invalid comment token"
  /\ ~StartsWithComment(jsonText)
  /\ jsonText[Errs[1].offset + 2] = "*"
  /\ \A i \in 1..(Len(jsonText) - 1) : ~(jsonText[i] = "*" /\ jsonText[i + 1] = "/")

\* texts that are valid JSON by construction: serialised documents, alone
\* or surrounded by white space, and the valid texts of the examples
ValidTexts ==
  {Stringify(v) : v \in Docs} \cup {Spaced(v) : v \in Level(MaxDepth)} \cup
  { <<"\"", "/", "/", "\"">>,
    <<"[", "\"", "/", "*", " ", "*", "/", "\"", "]">>,
    <<"1", "e", "9", "9", "9">>,
    <<"[", "-", "1", "e", "9", "9", "9", "]">>,
    <<"1", "e", "2">>,
    <<" ", " ", "\n", " ", " ", "{", "\"", "a", "\"", ":", " ", "\"", "b", "\"", "}", " ", " ", "\n", " ", " ">>,
    <<"[", "\n", " ", " ", "1", ",", "\n", " ", " ", "1", "\n", "]">> }

RECURSIVE StructurallyEqual(_, _)
\* equality of value trees: arrays by position, objects by key whatever
\* the order of their keys, primitives by ===
StructurallyEqual(a, b) ==
  IF a.k # b.k THEN FALSE
  ELSE IF a.k = "arr"
  THEN /\ Len(a.items) = Len(b.items)
       /\ \A i \in 1..Len(a.items) : StructurallyEqual(a.items[i], b.items[i])
  ELSE IF a.k = "obj"
  THEN /\ {a.keys[i] : i \in 1..Len(a.keys)} = {b.keys[i] : i \in 1..Len(b.keys)}
       /\ Len(a.keys) = Len(b.keys)
       /\ \A i \in 1..Len(a.keys) :
            StructurallyEqual(a.vals[i], b.vals[IndexOf(b.keys, a.keys[i], 1)])
  ELSE a = b

\* C18: every valid JSON text parses; the text minifyJson or formatJson
\* makes of it parses again, to a value equal to the first one; and
\* minifyJson(minifyJson(t)) = minifyJson(t).
ParseIdempotence ==
  /\ (ParseCalled /\ jsonText \in ValidTexts) => parsed.success
  /\ (output # NoOutput /\ ~output.threw) =>
       /\ safeJsonParse(output.text).success
       /\ StructurallyEqual(safeJsonParse(output.text).data, safeJsonParse(jsonText).data)
       /\ minifyJson(minifyJson(jsonText).text) = minifyJson(jsonText)
  /\ (output # NoOutput /\ jsonText \in ValidTexts) => ~output.threw

---------------------------------------------------------------------------
(* The share codec (src/share/codec.ts) and decode of the encoder.  The    *)
(* lz-string functions are a dependency: compressToEncodedURIComponent is  *)
(* a reversible transform that never returns an empty string, and          *)
(* decompressFromEncodedURIComponent returns null, "" or a text.           *)

\* export const MAX_PAYLOAD_SIZE = 50 * 1024
MAX_PAYLOAD_SIZE == 50 * 1024

\* export const MAX_DECOMPRESSED_SIZE = 100 * 1024
MAX_DECOMPRESSED_SIZE == 100 * 1024

\* str.length
StringLength(t) ==
  SumUnits(t.head, 1) + t.count * SumUnits(t.fill, 1) + SumUnits(t.tail, 1)

EncodedLengthCodeUnits(payloadStr) == StringLength(payloadStr)

\* new TextEncoder().encode(payloadStr).length
EncodedLength(payloadStr) ==
  SumBytes(payloadStr.head, 1) + payloadStr.count * SumBytes(payloadStr.fill, 1)
  + SumBytes(payloadStr.tail, 1)

\* compressToEncodedURIComponent(payloadStr)
LzCompress(payloadStr) == Link("lz", payloadStr)

\* !encoded: the empty string
IsEmptyLink(encoded) == encoded.kind = "blank" /\ StringLength(encoded.text) = 0

CompressFailure(message) ==
  [success |-> FALSE, encoded |-> Link("blank", NoText), error |-> CodecError(message, <<>>)]

CompressEncoded(encoded) ==
  IF IsEmptyLink(encoded) THEN CompressFailure("Failed to compress data")
  ELSE [success |-> TRUE, encoded |-> encoded, error |-> NoCodec]

compress(payloadStr) ==
  IF EncodedLength(payloadStr) > MAX_PAYLOAD_SIZE
  THEN CompressFailure("Data too large to share")
  ELSE CompressEncoded(LzCompress(payloadStr))

\* count copies of the characters of fill
Repeated(fill, count) ==
  [i \in 1..(count * Len(fill)) |-> fill[((i - 1) % Len(fill)) + 1]]

\* the characters of a string one by one
Expanded(t) == t.head \o Repeated(t.fill, t.count) \o t.tail

RECURSIVE LiteralState(_, _, _)
\* where the character after s stands: outside a string literal ("out"),
\* inside one ("in"), or after the backslash of an escape ("esc")
LiteralState(s, i, state) ==
  IF i > Len(s) THEN state
  ELSE IF state = "esc" THEN LiteralState(s, i + 1, "in")
  ELSE IF state = "in"
  THEN LiteralState(s, i + 1, IF s[i] = "\\" THEN "esc" ELSE IF s[i] = "\"" THEN "out" ELSE "in")
  ELSE LiteralState(s, i + 1, IF s[i] = "\"" THEN "in" ELSE "out")

\* a run longer than any keyword
RunMin == Len(<<"f", "a", "l", "s", "e">>) + 1

\* one character standing for a long run of a plain character
RunMark == "<RUN>"

\* characters that are no white space, no digit, no punctuation of JSON or
\* of a number or a comment, and need no escape in a string literal; the
\* space is one of them inside a literal
IsPlain(c) ==
  /\ c \notin {"\"", "\\", "\n", "\r", "\t", "\f", "<BS>", RunMark}
  /\ c \notin DigitChars
  /\ c \notin {"{", "}", "[", "]", ",", ":", "-", "+", ".", "/", "*", "e", "E"}

\* the text JSON.parse reads.  White space between tokens changes neither
\* whether the text is JSON nor its value, so a run of it is read as one
\* character.  A long run of a plain character outside a literal makes the
\* text invalid whatever its length, and inside a literal it is that run in
\* the string value: it is read as RunMark, which the scanner treats as
\* the characters it stands for, and which stands for the run in the value.
JsonTextAt(t, state) ==
  IF Len(t.fill) = 1 /\ t.fill[1] \in JsonWhiteSpace /\ state = "out"
  THEN t.head \o (IF t.count > 0 THEN t.fill ELSE <<>>) \o t.tail
  ELSE IF Len(t.fill) = 1 /\ IsPlain(t.fill[1]) /\ t.count >= RunMin /\ state # "esc"
  THEN t.head \o <<RunMark>> \o t.tail
  ELSE Expanded(t)

JsonText(t) == JsonTextAt(t, LiteralState(t.head, 1, "out"))

\* JSON.parse(text): the strict grammar of parse(); it throws where parse()
\* reports an error
JSONParse(t) == JsoncParse(JsonText(t))

JSONParseThrows(r) == ParseErrors(r) # <<>>

VName == <<"v">>

DName == <<"d">>

\* data.v and payload.d: undefined on a primitive, a TypeError on null
PropertyOf(data, key) == IF IsComposite(data) THEN GetProperty(data, key) ELSE NoData

RECURSIVE ToStringThrows(_)
\* `${v}` throws a TypeError for a plain object that owns a property
\* toString (no JSON value is callable), and for an array that holds one
ToStringThrows(v) ==
  CASE v.k = "obj" -> ToPrimitiveThrows(v)
    [] v.k = "arr" -> \E i \in 1..Len(v.items) : ToStringThrows(v.items[i])
    [] OTHER -> FALSE

RECURSIVE TemplateText(_)
RECURSIVE JoinItems(_, _)
\* `${v}`
TemplateText(v) ==
  CASE v.k = "undefined" -> <<"u", "n", "d", "e", "f", "i", "n", "e", "d">>
    [] v.k = "null" -> <<"n", "u", "l", "l">>
    [] v.k = "bool" -> IF v.b THEN <<"t", "r", "u", "e">> ELSE <<"f", "a", "l", "s", "e">>
    [] v.k = "num" -> IntToText(v.n)
    [] v.k = "inf" -> (IF v.neg THEN <<"-">> ELSE <<>>) \o <<"I", "n", "f", "i", "n", "i", "t", "y">>
    [] v.k = "str" -> v.s
    [] v.k = "arr" -> JoinItems(v.items, 1)
    [] v.k = "obj" -> <<"[", "o", "b", "j", "e", "c", "t", " ", "O", "b", "j", "e", "c", "t", "]">>

\* Array.prototype.join: null elements give the empty string
JoinItems(items, i) ==
  IF i > Len(items) THEN <<>>
  ELSE (IF i > 1 THEN <<",">> ELSE <<>>)
       \o (IF items[i].k = "null" THEN <<>> ELSE TemplateText(items[i]))
       \o JoinItems(items, i + 1)

DecompressFailure(message, v) ==
  [success |-> FALSE, data |-> NoData, error |-> CodecError(message, v)]

\* the body of the try block once JSON.parse returned data
decompressVersion(data, v) ==
  IF ~StrictEq(v, JNum(1))
  THEN IF ToStringThrows(v) THEN DecompressFailure("Invalid payload format", <<>>)
       ELSE DecompressFailure("Unsupported version: ", TemplateText(v))
  ELSE [success |-> TRUE, data |-> data, error |-> NoCodec]

\* the try block: JSON.parse, data.v, and the catch
decompressParsed(r) ==
  IF JSONParseThrows(r) \/ r.val.k = "null"
  THEN DecompressFailure("Invalid payload format", <<>>)
  ELSE decompressVersion(r.val, PropertyOf(r.val, VName))

\* decompressFromEncodedURIComponent(encoded) returned null or ""
NotDecompressible(encoded) ==
  encoded.kind = "undecodable" \/ StringLength(encoded.text) = 0

decompressText(encoded) ==
  IF NotDecompressible(encoded)
  THEN DecompressFailure("Could not decode data", <<>>)
  ELSE IF StringLength(encoded.text) > MAX_DECOMPRESSED_SIZE
  THEN DecompressFailure("Decoded content too large", <<>>)
  ELSE decompressParsed(JSONParse(encoded.text))

\* !encoded.trim()
IsBlankLink(encoded) == encoded.kind = "blank"

decompress(encoded) ==
  IF IsBlankLink(encoded) THEN DecompressFailure("Invalid share link", <<>>)
  ELSE decompressText(encoded)

\* decode of the encoder: the checks of decompress, and json: payload.d
DecodeResult(r) == [success |-> r.success, json |-> IF r.success THEN PropertyOf(r.data, DName) ELSE NoData,
                    error |-> r.error]

decode(encoded) == DecodeResult(decompress(encoded))

\* const PAYLOAD_WRAPPER_OVERHEAD = 30
PAYLOAD_WRAPPER_OVERHEAD == 30

\* !json.trim()
IsBlankString(json) ==
  /\ \A i \in 1..Len(json.head) : IsTrimmed(json.head[i])
  /\ json.count > 0 => \A i \in 1..Len(json.fill) : IsTrimmed(json.fill[i])
  /\ \A i \in 1..Len(json.tail) : IsTrimmed(json.tail[i])

\* JSON.stringify that leaves the characters of json as they are
PayloadTextUnescaped(json) ==
  Run(<<"{", "\"", "v", "\"", ":", "1", ",", "\"", "d", "\"", ":", "\"">> \o json.head,
      json.fill, json.count, json.tail \o <<"\"", "}">>)

\* JSON.stringify({ v: 1, d: json }): the characters of json are escaped
\* one by one
PayloadText(json) ==
  Run(<<"{", "\"", "v", "\"", ":", "1", ",", "\"", "d", "\"", ":", "\"">> \o QuoteChars(json.head),
      QuoteChars(json.fill), json.count,
      QuoteChars(json.tail) \o <<"\"", "}">>)

\* encode once payloadStr is serialised
encodePayload(payloadStr) ==
  IF EncodedLength(payloadStr) > MAX_PAYLOAD_SIZE
  THEN CompressFailure("Data too large to share")
  ELSE CompressEncoded(LzCompress(payloadStr))

encode(json) ==
  IF IsBlankString(json) THEN CompressFailure("JSON is empty")
  ELSE encodePayload(PayloadText(json))

isShareableSize(json) ==
  IF IsBlankString(json) THEN FALSE
  ELSE EncodedLength(json) + PAYLOAD_WRAPPER_OVERHEAD <= MAX_PAYLOAD_SIZE

fitsInPayload(content) ==
  IF IsBlankString(content) THEN FALSE
  ELSE EncodedLength(content) + PAYLOAD_WRAPPER_OVERHEAD <= MAX_PAYLOAD_SIZE

---------------------------------------------------------------------------
(* The state machine of the share codec: a caller holds a payload string,  *)
(* an encoded string and a JSON string and calls compress, decompress,     *)
(* decode, encode and isShareableSize, each once, and decompress and       *)
(* decode on what compress and encode returned.  The codec keeps no state. *)

\* how far around a size limit the lengths of the explored strings go
Margin == 1

Around(n) == {m \in (n - Margin)..(n + Margin) : m >= 0}

\* payload strings whose UTF-8 length is at, just under or just over the
\* limit, in characters of one to four bytes, and short ones
PayloadStrings ==
  { Text(head, fill, count) :
      head \in {<<>>, <<"a">>},
      fill \in {"a", "<U+00E9>", "<U+20AC>", "<U+1F600>", "<U+D800>"},
      count \in Around(MAX_PAYLOAD_SIZE \div 4) \cup Around(MAX_PAYLOAD_SIZE \div 3)
                \cup Around(MAX_PAYLOAD_SIZE \div 2) \cup Around(MAX_PAYLOAD_SIZE) }
  \cup { Text(<<>>, " ", 0), Text(<<"{", "\"", "v", "\"", ":", "1", ",", "\"", "d", "\"", ":", "\"", "x", "\"", "}">>, " ", 0) }
  \cup { Text(<<"{", "\"", "v", "\"", ":", "1", ",", "\"", "d", "\"", ":", "\"", "x", "\"", "}">>, " ",
               m - 15) : m \in Around(MAX_PAYLOAD_SIZE) }
  \cup { Run(<<"{", "\"", "v", "\"", ":", "1", ",", "\"", "d", "\"", ":", "\"">>, <<"x">>, m - 14, <<"\"", "}">>) :
           m \in Around(MAX_PAYLOAD_SIZE) }
  \cup { Text(head, " ", 0) :
           head \in { <<"{", "\"", "v", "\"", ":", "1", ",", "\"", "d", "\"", ":", "1", "e", "9", "9", "9", "}">>,
                      <<"{", "\"", "v", "\"", ":", "1", ",", "\"", "v", "\"", ":", "1", "}">>,
                      <<"{", "\"", "v", "\"", ":", "1", ",", "\"", "d", "\"", ":", "{", "\"", "b", "\"", ":", "1", ",", "\"", "a", "\"", ":", "2", "}", "}">> } }

\* the longest string of one-byte characters isShareableSize accepts
ShareableBytes == MAX_PAYLOAD_SIZE - PAYLOAD_WRAPPER_OVERHEAD

\* the longest string of one-byte characters without escapes encode accepts
EncodableBytes == MAX_PAYLOAD_SIZE - EncodedLength(PayloadText(NoText))

SizeLimits == Around(ShareableBytes) \cup Around(EncodableBytes)

Quotes(n) == [i \in 1..n |-> "\""]

\* the strings handed to encode and isShareableSize: blank ones, short
\* ones with characters the wrapper escapes, and JSON texts and other
\* strings whose size is at, just under or just over the two limits
JsonStrings ==
  { Text(<<>>, " ", 3), Text(<<"\n", "\t">>, " ", 1), Text(<<"<NBSP>">>, " ", 0) }
  \cup
  { Text(head, " ", 0) :
      head \in { <<"{", "\"", "a", "\"", ":", "1", "}">>,
                 <<"\"", "a", "\\", "\"", "b", "\"">>,
                 <<"[", "\n", "\t", "1", "\r", "\n", "]">>,
                 <<"\"", "\\", "u", "d", "8", "0", "0", "\"">>,
                 <<"<U+D800>", "<U+1F600>", "<U+00E9>", "<U+20AC>">>,
                 <<"\\">>, <<"\"">>, <<"<BS>", "\f">>,
                 <<"n", "o", "t", " ", "j", "s", "o", "n">> } }
  \cup
  { Text(<<>>, fill, count) :
      fill \in {"\"", "\\", "\n", "<U+D800>", "a"}, count \in 1..3 }
  \cup
  { Text(<<"[", "1", "]">>, fill, m - 3) : fill \in {" ", "a"}, m \in SizeLimits }
  \cup
  { Run(<<"{", "\"", "a", "\"", ":", "\"">>, <<"x">>, m - 8, <<"\"", "}">>) :
      m \in Around(ShareableBytes) }
  \cup
  { Text(<<>>, "<U+1F600>", m \div 4) : m \in SizeLimits }
  \cup
  { Text(Quotes(n), "a", m - n) :
      n \in {16, 17}, m \in Around(ShareableBytes) }
  \cup
  { Text(<<>>, fill, m) : fill \in {"\"", "\\", "\n"}, m \in Around(ShareableBytes) }

\* the decompressed texts: payloads with and without v = 1, JSON values
\* that are no payload, and texts that are no JSON
PlainHeads ==
  { <<"{", "\"", "v", "\"", ":", "1", ",", "\"", "d", "\"", ":", "\"", "x", "\"", "}">>,
    <<"{", "\"", "v", "\"", ":", "2", ",", "\"", "d", "\"", ":", "\"", "x", "\"", "}">>,
    <<"{", "\"", "d", "\"", ":", "\"", "x", "\"", "}">>,
    <<"{", "\"", "v", "\"", ":", "\"", "1", "\"", "}">>,
    <<"{", "\"", "v", "\"", ":", "n", "u", "l", "l", "}">>,
    <<"{", "\"", "v", "\"", ":", "{", "\"", "t", "o", "S", "t", "r", "i", "n", "g", "\"", ":", "1", "}", "}">>,
    <<"{", "\"", "v", "\"", ":", "[", "1", ",", "2", "]", "}">>,
    <<"{", "\"", "v", "\"", ":", "[", "{", "\"", "t", "o", "S", "t", "r", "i", "n", "g", "\"", ":", "1", "}", "]", "}">>,
    <<"{", "\"", "v", "\"", ":", "t", "r", "u", "e", "}">>,
    <<"{", "\"", "v", "\"", ":", "1", "e", "9", "9", "9", "}">>,
    <<"{", "\"", "v", "\"", ":", "1", "}">>,
    <<"{", "\"", "v", "\"", ":", "1", "e", "0", "}">>,
    <<"{", "\"", "v", "\"", ":", "1", ",", "\"", "v", "\"", ":", "2", "}">>,
    <<"{", "\"", "v", "\"", ":", "2", ",", "\"", "v", "\"", ":", "1", "}">>,
    <<"n", "u", "l", "l">>,
    <<"5">>,
    <<"\"", "v", "\"">>,
    <<"[", "1", "]">>,
    <<"n", "o", "t", " ", "j", "s", "o", "n">>,
    <<"{", "\"", "v", "\"", ":", "1", ",">>,
    <<"{", "\"", "v", "\"", ":", "1", "}", "}">>,
    <<"\"", "<U+1F600>", "\"">> }

\* each followed by white space, up to the limit on the decompressed length
\* and beyond
PlainTexts ==
  { Text(head, " ", count) : head \in PlainHeads, count \in {0, 2} }
  \cup
  { Text(head, " ", m - SumUnits(head, 1)) :
      head \in PlainHeads, m \in Around(MAX_DECOMPRESSED_SIZE) }

Links ==
  { Link("blank", Text(<<>>, " ", 0)), Link("blank", Text(<<>>, " ", 3)),
    Link("blank", Text(<<"\n", "\t">>, " ", 1)),
    Link("undecodable", NoText),
    Link("junk", Text(<<>>, " ", 0)),
    Link("junk", Text(<<"a">>, " ", MAX_DECOMPRESSED_SIZE)),
    Link("lz", Text(<<>>, "1", 3)),
    Link("junk", Text(<<"\"">>, "a", 3)),
    Link("junk", Text(<<"<U+1F600>">>, " ", MAX_DECOMPRESSED_SIZE - 1)) }
  \cup { Link(kind, t) : kind \in {"lz", "junk"}, t \in PlainTexts }

\* the calls are independent, so the explored strings vary one at a time
InitShare ==
  /\ \/ payload \in PayloadStrings /\ link = Link("lz", Text(<<"5">>, " ", 0))
        /\ jsonInput = Text(<<"5">>, " ", 0)
     \/ payload = Text(<<"5">>, " ", 0) /\ link \in Links
        /\ jsonInput = Text(<<"5">>, " ", 0)
     \/ payload = Text(<<"5">>, " ", 0) /\ link = Link("lz", Text(<<"5">>, " ", 0))
        /\ jsonInput \in JsonStrings
  /\ compressed = NotCompressed
  /\ decompressed = NotDecompressed
  /\ decoded = NotDecoded
  /\ encoding = NotEncoded
  /\ shareable = NotSized
  /\ unpacked = NotDecompressed
  /\ returned = NotDecoded
  /\ DifferUnused
  /\ ParserUnused
  /\ ValidatorUnused

Compress ==
  /\ compressed = NotCompressed
  /\ compressed' = compress(payload)
  /\ UNCHANGED <<payload, link, jsonInput, decompressed, decoded, encoding, shareable, unpacked, returned,
                 differVars, parserVars, validatorVars>>

Decompress ==
  /\ decompressed = NotDecompressed
  /\ decompressed' = decompress(link)
  /\ UNCHANGED <<payload, link, jsonInput, compressed, decoded, encoding, shareable, unpacked, returned,
                 differVars, parserVars, validatorVars>>

Decode ==
  /\ decoded = NotDecoded
  /\ decoded' = decode(link)
  /\ UNCHANGED <<payload, link, jsonInput, compressed, decompressed, encoding, shareable, unpacked, returned,
                 differVars, parserVars, validatorVars>>

\* encode(json)
Encode ==
  /\ encoding = NotEncoded
  /\ encoding' = encode(jsonInput)
  /\ UNCHANGED <<payload, link, jsonInput, compressed, decompressed, decoded, shareable, unpacked, returned,
                 differVars, parserVars, validatorVars>>

\* isShareableSize(json) and fitsInPayload(json)
IsShareable ==
  /\ shareable = NotSized
  /\ shareable' = [called |-> TRUE, shareable |-> isShareableSize(jsonInput),
                   fits |-> fitsInPayload(jsonInput)]
  /\ UNCHANGED <<payload, link, jsonInput, compressed, decompressed, decoded, encoding, unpacked, returned,
                 differVars, parserVars, validatorVars>>

\* decode(encode(json).encoded)
DecodeEncoded ==
  /\ encoding.success
  /\ returned = NotDecoded
  /\ returned' = decode(encoding.encoded)
  /\ UNCHANGED <<payload, link, jsonInput, compressed, decompressed, decoded, encoding, shareable, unpacked,
                 differVars, parserVars, validatorVars>>

\* decompress(compress(payloadStr).encoded)
DecompressCompressed ==
  /\ compressed.success
  /\ unpacked = NotDecompressed
  /\ unpacked' = decompress(compressed.encoded)
  /\ UNCHANGED <<payload, link, jsonInput, compressed, decompressed, decoded, encoding, shareable, returned,
                 differVars, parserVars, validatorVars>>

NextShare ==
  \/ Compress \/ Decompress \/ Decode
  \/ Encode \/ IsShareable \/ DecodeEncoded \/ DecompressCompressed

SpecShare == InitShare /\ [][NextShare]_vars

---------------------------------------------------------------------------
(* Properties of the share codec                                           *)

CompressCalled == compressed # NotCompressed

\* the characters of a string that take b bytes in UTF-8
CharsOfWidth(t, b) ==
  Cardinality({i \in 1..Len(t.head) : Utf8Bytes(t.head[i]) = b})
  + t.count * Cardinality({i \in 1..Len(t.fill) : Utf8Bytes(t.fill[i]) = b})
  + Cardinality({i \in 1..Len(t.tail) : Utf8Bytes(t.tail[i]) = b})

Utf8ByteLength(t) ==
  CharsOfWidth(t, 1) + 2 * CharsOfWidth(t, 2) + 3 * CharsOfWidth(t, 3) + 4 * CharsOfWidth(t, 4)

\* the characters (code points) of a string
CharacterCount(t) == Len(t.head) + t.count * Len(t.fill) + Len(t.tail)

\* C19: compress fails with "Data too large to share" exactly when the
\* UTF-8 byte length of the payload, not its character count, is greater
\* than 51200; a payload of exactly 51200 bytes is accepted, and 12801
\* four-byte characters are rejected although they are fewer than 51200
\* characters.
CompressSizeLimit ==
  CompressCalled =>
    /\ (compressed.error.message = "Data too large to share") <=> (Utf8ByteLength(payload) > 51200)
    /\ Utf8ByteLength(payload) <= 51200 =>
         (compressed.success /\ compressed.encoded = Link("lz", payload))
    /\ Utf8ByteLength(payload) > 51200 =>
         compressed = [success |-> FALSE, encoded |-> Link("blank", NoText),
                       error |-> CodecError("Data too large to share", <<>>)]
    /\ payload = Text(<<>>, "<U+1F600>", 12801) => ~compressed.success

\* 12801 four-byte characters: fewer than 51200 characters and code units,
\* more than 51200 bytes, rejected
CompressSizeLimitWitness ==
  /\ CompressCalled
  /\ payload = Text(<<>>, "<U+1F600>", 12801)
  /\ CharacterCount(payload) < 51200
  /\ StringLength(payload) < 51200
  /\ compressed.error.message = "Data too large to share"

DecompressCalled == decompressed # NotDecompressed /\ decoded # NotDecoded

LinkIsBlank == link.kind = "blank"

LinkDecompresses == link.kind \in {"lz", "junk"} /\ CharacterCount(link.text) > 0

\* the decompressed text is JSON, and the value it holds
PlainIsJson == ParseErrors(JSONParse(link.text)) = <<>>

PlainValue == JSONParse(link.text).val

\* the v member of an object, undefined for any other value
VersionOf(val) ==
  IF val.k = "obj" /\ \E i \in 1..Len(val.keys) : val.keys[i] = VName
  THEN val.vals[CHOOSE i \in 1..Len(val.keys) : val.keys[i] = VName]
  ELSE NoData

\* the message (without the version) the checks give when applied in order
OrderedChecks ==
  IF LinkIsBlank THEN "Invalid share link"
  ELSE IF ~LinkDecompresses THEN "Could not decode data"
  ELSE IF StringLength(link.text) > 102400 THEN "Decoded content too large"
  ELSE IF ~PlainIsJson THEN "Invalid payload format"
  ELSE IF VersionOf(PlainValue) # JNum(1) THEN "Unsupported version: "
  ELSE "idle"

\* C20: decompress and decode apply their checks in order and return the
\* first failure: blank input "Invalid share link", not decompressible
\* "Could not decode data", longer than 102400 "Decoded content too large",
\* not JSON "Invalid payload format", a JSON payload whose v is not 1
\* "Unsupported version: <v>"; success only when all five pass.
DecompressCheckOrder ==
  DecompressCalled =>
    /\ decompressed.error.message = OrderedChecks
    /\ decoded.error.message = OrderedChecks
    /\ decompressed.success <=> OrderedChecks = "idle"
    /\ decoded.success <=> OrderedChecks = "idle"
    /\ decompressed.error.message = "Unsupported version: " =>
         /\ decompressed.error.v = TemplateText(VersionOf(PlainValue))
         /\ decoded.error.v = decompressed.error.v
    /\ decompressed.success =>
         (decompressed.data = PlainValue /\ decoded.json = PropertyOf(PlainValue, DName))

---------------------------------------------------------------------------
(* Further properties of compareJson                                       *)

\* C28: when compareJson of two valid texts succeeds with no entry, the two
\* parsed values are structurally equal; [] against {} and {} against an
\* object with one more key never give an empty list.
EmptyDiffMeansEqual ==
  (Called /\ BothValid /\ result.success /\ Entries = <<>>) =>
    /\ StructurallyEqual(L.data, R.data)
    /\ ~(L.data = JArr(<<>>) /\ R.data = JObj(<<>>, <<>>))
    /\ ~(L.data = JObj(<<>>, <<>>) /\ R.data.k = "obj" /\ Len(R.data.keys) > 0)

\* the pointer p addresses a location above the one q addresses: the root
\* pointer "/" is above every other, and elsewhere q continues p by "/"
Above(p, q) ==
  /\ p # q
  /\ \/ p = <<"/">>
     \/ Beneath(p, q)

\* C29: within one result no two entries have the same path, no entry's
\* path is an ancestor of another entry's path, and only an entry for the
\* root (one of the roots is a primitive) is written "/".
AddressableEntries ==
  (Called /\ result.success) =>
    /\ \A i \in 1..Len(Entries) : \A j \in 1..Len(Entries) :
         i # j => (Entries[i].path # Entries[j].path /\ ~Above(Entries[i].path, Entries[j].path))
    /\ \A i \in 1..Len(Entries) :
         Entries[i].path = <<"/">> => (IsPrimitive(L.data) \/ IsPrimitive(R.data))

---------------------------------------------------------------------------
(* Properties of the validator, the formatter's failures and getJsonStats  *)

\* C22: validateJson(input).valid equals safeJsonParse(input).success and
\* isValidJson(input); a valid result has no error, an invalid one exactly
\* one error with keyword "syntax", path "" and the message, line and
\* column of the parse error.
ValidateAgreesWithParser ==
  validation.called =>
    /\ validation.valid = safeJsonParse(jsonText).success
    /\ validation.valid = isValidJson(jsonText)
    /\ validation.valid => validation.errors = <<>>
    /\ ~validation.valid =>
         /\ Len(validation.errors) = 1
         /\ validation.errors[1].keyword = "syntax"
         /\ validation.errors[1].path = ""
         /\ validation.errors[1].message = safeJsonParse(jsonText).error.message
         /\ validation.errors[1].line = safeJsonParse(jsonText).error.line
         /\ validation.errors[1].column = safeJsonParse(jsonText).error.column

\* a syntax error on the second line of a text, reported by validateJson
ValidateAgreesWithParserWitness ==
  /\ validation.called
  /\ ~validation.valid
  /\ Len(validation.errors) = 1
  /\ validation.errors[1].line = 2
  /\ validation.errors[1].message = "Value expected"

FormatterCalled == output # NoOutput

\* C25: formatJson, beautifyJson and minifyJson throw "Invalid JSON input"
\* for exactly the texts on which safeJsonParse fails (the empty text
\* included) and for the input undefined; for a text that parses ("null"
\* included) they return a string; they never return output made from a
\* partly parsed document.
FormatterThrowsOnInvalid ==
  FormatterCalled =>
    /\ output.threw => (output.error = "Invalid JSON input" /\ output.text = <<>>)
    /\ ~output.threw => (output.error = "" /\ output.text # <<>>)
    /\ output.fn \in {"formatJson(undefined)", "minifyJson(undefined)"} => output.threw
    /\ output.fn \in {"formatJson", "beautifyJson", "minifyJson"} =>
         /\ output.threw <=> ~safeJsonParse(jsonText).success
         /\ (Errs # <<>> \/ OnlyWhiteSpace(jsonText)) => output.threw
         /\ jsonText = <<"n", "u", "l", "l">> => output.text = <<"n", "u", "l", "l">>

\* parse() built [1] from the text before its error, and minifyJson threw
FormatterThrowsOnInvalidWitness ==
  /\ FormatterCalled
  /\ output.fn = "minifyJson"
  /\ Parsing.val = JArr(<<JNum(1)>>)
  /\ Errs # <<>>
  /\ output.threw

RECURSIVE DepthOf(_)
\* 0 for a primitive, 1 for an empty composite, otherwise one more than the
\* deepest child
DepthOf(v) ==
  IF ~IsComposite(v) THEN 0
  ELSE LET children == IF v.k = "arr" THEN v.items ELSE v.vals
           depths == {DepthOf(children[i]) : i \in 1..Len(children)}
       IN IF depths = {} THEN 1
          ELSE 1 + (CHOOSE d \in depths : \A e \in depths : e <= d)

RECURSIVE KeyCount(_)
RECURSIVE KeyCountOf(_, _)
\* the keys of all objects of a document
KeyCount(v) ==
  IF v.k = "arr" THEN KeyCountOf(v.items, 1)
  ELSE IF v.k = "obj" THEN Len(v.keys) + KeyCountOf(v.vals, 1)
  ELSE 0

KeyCountOf(children, i) ==
  IF i > Len(children) THEN 0 ELSE KeyCount(children[i]) + KeyCountOf(children, i + 1)

StatsCalled == stats # NoStats

\* C26: getJsonStats of a valid document returns depth 0 for a primitive
\* root, 1 for an empty array or object and otherwise 1 plus the largest
\* depth of the children, and keys the number of object keys over all
\* levels; of an invalid document it returns valid=false, keys=0, depth=0,
\* minifiedSize=0 and type "invalid".
StatsOfDocument ==
  StatsCalled =>
    IF safeJsonParse(jsonText).success
    THEN /\ ~stats.threw
         /\ stats.valid
         /\ stats.depth = DepthOf(safeJsonParse(jsonText).data)
         /\ stats.keys = KeyCount(safeJsonParse(jsonText).data)
    ELSE /\ ~stats.threw
         /\ ~stats.valid
         /\ stats.keys = 0
         /\ stats.depth = 0
         /\ stats.minifiedSize = 0
         /\ stats.type = "invalid"

---------------------------------------------------------------------------
(* Properties of the encoder and of the round trips                        *)

\* the string value that holds the characters of t (a long run of a plain
\* character as RunMark, as JSON.parse of a literal gives it)
StringValue(t) == JStr(JsonTextAt(t, "in"))

EncodeCalled == encoding # NotEncoded

\* how often the characters of the set cs occur in t
Occurrences(t, cs) ==
  Cardinality({i \in 1..Len(t.head) : t.head[i] \in cs})
  + t.count * Cardinality({i \in 1..Len(t.fill) : t.fill[i] \in cs})
  + Cardinality({i \in 1..Len(t.tail) : t.tail[i] \in cs})

\* the UTF-8 bytes of JSON.stringify({v: 1, d: t}): the 14 bytes of
\* {"v":1,"d":""}, the bytes of t, one more byte for each character that is
\* written as a backslash and a letter, and six bytes in place of the three
\* of a lone surrogate
WrappedBytes(t) ==
  14 + Utf8ByteLength(t)
  + Occurrences(t, {"\"", "\\", "\n", "\r", "\t", "\f", "<BS>"})
  + 3 * Occurrences(t, {"<U+D800>"})

\* payload is the JSON text of an object whose v is 1
PayloadIsVersionOne ==
  /\ ParseErrors(JSONParse(payload)) = <<>>
  /\ JSONParse(payload).val.k = "obj"
  /\ VersionOf(JSONParse(payload).val) = JNum(1)

\* C21: for every string encode accepts, decode of the encoded string
\* succeeds and returns that string; for every JSON text of an object with
\* v = 1 that compress accepts, decompress of the encoded string succeeds
\* with the parsed text as data; and neither fails with "Decoded content
\* too large".
ShareRoundTrip ==
  /\ returned # NotDecoded =>
       /\ encoding.success
       /\ returned.success
       /\ returned.json = StringValue(jsonInput)
       /\ returned.error = NoCodec
  /\ unpacked # NotDecompressed =>
       /\ compressed.success
       /\ unpacked.error.message # "Decoded content too large"
       /\ PayloadIsVersionOne =>
            (unpacked.success /\ unpacked.data = JSONParse(payload).val)
  /\ EncodeCalled =>
       /\ encoding.success <=> (~IsBlankString(jsonInput) /\ WrappedBytes(jsonInput) <= 51200)
       /\ encoding.success => StringLength(encoding.encoded.text) <= 102400

\* a string with sixteen quotes whose wrapped payload takes exactly 51200
\* bytes came back from decode(encode(json).encoded)
ShareRoundTripWitness ==
  /\ returned.success
  /\ jsonInput = Text(Quotes(16), "a", 51154)
  /\ Utf8ByteLength(encoding.encoded.text) = 51200
  /\ returned.json.k = "str"
  /\ SubSeq(returned.json.s, 1, 16) = Quotes(16)

\* C30: isShareableSize(json) is true only if encode(json) succeeds: the
\* UTF-8 bytes of json plus 30 being at most 51200 implies that the wrapped
\* payload JSON.stringify({v: 1, d: json}) takes at most 51200 bytes, also
\* when json holds quotes, backslashes or newlines.
SizeCheckPredictsEncoder ==
  (shareable.called /\ EncodeCalled) =>
    /\ shareable.shareable => encoding.success
    /\ Utf8ByteLength(jsonInput) + 30 <= 51200 => WrappedBytes(jsonInput) <= 51200

---------------------------------------------------------------------------
(* The schema validator (validator.ts): validateJsonSchema, the cache of   *)
(* compiled schemas, addSchema, removeSchema and clearSchemaCache.  Ajv is *)
(* a dependency; it is modelled for schemas made of the keywords $id,      *)
(* $ref, type and const: it keeps the schemas added under a key (schemas)  *)
(* and the schemas known by their $id (refs), registers a schema before it *)
(* validates and compiles it, and resolves a $ref when it compiles.        *)

\* const MAX_CACHE_SIZE = 100
MAX_CACHE_SIZE == 100

IdName == <<"$", "i", "d">>

RefName == <<"$", "r", "e", "f">>

TypeName == <<"t", "y", "p", "e">>

ConstName == <<"c", "o", "n", "s", "t">>

\* an own property of a parsed object, undefined when it has none
OwnProperty(v, key) == IF v.k = "obj" /\ HasOwn(v, key) THEN GetProperty(v, key) ELSE NoData

\* new Ajv(...): no schema is registered
NoSchemas == [schemas |-> {}, refs |-> {}]

Entry(id, schema) == [id |-> id, schema |-> schema]

Ids(entries) == {e.id : e \in entries}

\* this.schemas[id] || this.refs[id]
IsRegistered(registry, id) == id \in Ids(registry.schemas) \cup Ids(registry.refs)

\* this.refs[ref] || this.schemas[ref]
SchemaAt(registry, id) ==
  IF id \in Ids(registry.refs) THEN (CHOOSE e \in registry.refs : e.id = id).schema
  ELSE (CHOOSE e \in registry.schemas : e.id = id).schema

JsonTypes ==
  { <<"n", "u", "m", "b", "e", "r">>, <<"i", "n", "t", "e", "g", "e", "r">>,
    <<"s", "t", "r", "i", "n", "g">>, <<"b", "o", "o", "l", "e", "a", "n">>,
    <<"n", "u", "l", "l">>, <<"o", "b", "j", "e", "c", "t">>, <<"a", "r", "r", "a", "y">> }

SchemaKeywords == {IdName, RefName, TypeName, ConstName}

\* typeof schema == "object" (null is one) or "boolean"
IsSchemaType(schema) == schema.k \in {"obj", "arr", "null", "bool"}

\* the $id under which _addSchema registers a schema: a non-empty string
SchemaId(schema) ==
  IF OwnProperty(schema, IdName).k = "str" THEN OwnProperty(schema, IdName).s ELSE <<>>

\* schema[schemaId] of null, and normalizeId of an $id that is truthy and
\* no string, throw a TypeError
IdThrows(schema) ==
  \/ schema.k = "null"
  \/ /\ OwnProperty(schema, IdName).k \notin {"undefined", "str"}
     /\ Truthy(OwnProperty(schema, IdName))

\* validateSchema against the meta-schema: a schema is an object or a
\* boolean, $id and $ref are strings, type is the name of a type
MetaSchemaValid(schema) ==
  \/ schema.k = "bool"
  \/ /\ schema.k = "obj"
     /\ OwnProperty(schema, IdName).k \in {"undefined", "str"}
     /\ OwnProperty(schema, RefName).k \in {"undefined", "str"}
     /\ \/ OwnProperty(schema, TypeName).k = "undefined"
        \/ /\ OwnProperty(schema, TypeName).k = "str"
           /\ OwnProperty(schema, TypeName).s \in JsonTypes

\* strict mode: a keyword Ajv does not know
HasUnknownKeyword(schema) ==
  schema.k = "obj" /\ \E i \in 1..Len(schema.keys) : schema.keys[i] \notin SchemaKeywords

HasRef(schema) == OwnProperty(schema, RefName).k = "str"

RefOf(schema) == OwnProperty(schema, RefName).s

\* _addSchema registers a schema that has an $id in refs (_checkUnique
\* passed), before the schema is validated
WithRef(registry, id, schema) ==
  IF id = <<>> THEN registry
  ELSE [registry EXCEPT !.refs = @ \cup {Entry(id, schema)}]

\* what ajv.compile and ajv.addSchema give: an exception, or the registry
\* they leave and the compiled schema
AjvThrew(message, registry) ==
  [threw |-> TRUE, message |-> message, registry |-> registry, validate |-> NoData]

\* a compiled schema: the schemas that apply, the schema itself and those
\* its $ref leads to, and whether the references form a loop
Compiled(chain, loops) == [k |-> "validate", chain |-> chain, loops |-> loops]

AjvCompiled(registry, validate) ==
  [threw |-> FALSE, message |-> "", registry |-> registry, validate |-> validate]

RECURSIVE CompileChain(_, _, _, _)
\* compileSchema of a registered schema: a keyword Ajv does not know
\* throws, and a $ref is resolved against the registry and the schema it
\* names is compiled in turn (a missing one is a MissingRefError).  A
\* schema met again is compiled as a call of itself.  The schema stays
\* registered when this throws.
CompileChain(schema, registry, visited, chain) ==
  IF HasUnknownKeyword(schema) THEN AjvThrew("strict mode: unknown keyword", registry)
  ELSE IF OwnProperty(schema, TypeName).k # "undefined"
          /\ ~(OwnProperty(schema, TypeName).k = "str" /\ OwnProperty(schema, TypeName).s \in JsonTypes)
  THEN AjvThrew("type must be JSONType or JSONType[]", registry)
  ELSE IF ~HasRef(schema) THEN AjvCompiled(registry, Compiled(Append(chain, schema), FALSE))
  ELSE IF ~IsRegistered(registry, RefOf(schema))
  THEN AjvThrew("can't resolve reference", registry)
  ELSE IF RefOf(schema) \in visited
  THEN AjvCompiled(registry, Compiled(Append(chain, schema), TRUE))
  ELSE CompileChain(SchemaAt(registry, RefOf(schema)), registry,
                    visited \cup {RefOf(schema)}, Append(chain, schema))

CompileSchemaEnv(schema, registry) ==
  CompileChain(schema, registry, {SchemaId(schema)} \ {<<>>}, <<>>)

\* _addSchema after the schema is registered: validateSchema, which throws
\* on a schema that is invalid
ValidateAndCompile(schema, registry) ==
  IF ~MetaSchemaValid(schema) THEN AjvThrew("schema is invalid", registry)
  ELSE CompileSchemaEnv(schema, registry)

\* ajv.compile(schema)
AjvCompile(schema, registry) ==
  IF ~IsSchemaType(schema) THEN AjvThrew("schema must be object or boolean", registry)
  ELSE IF IdThrows(schema) THEN AjvThrew("TypeError", registry)
  ELSE IF SchemaId(schema) # <<>> /\ IsRegistered(registry, SchemaId(schema))
  THEN AjvThrew("schema with key or id already exists", registry)
  ELSE ValidateAndCompile(schema, WithRef(registry, SchemaId(schema), schema))

\* ajv.addSchema(schema, key): the key must be free, an $id must be a
\* string, and the schema is registered under its $id (or the key) before
\* it is validated, and under the key once it is valid.  An array adds
\* each of its items: none for the empty array, and an item that is a
\* number is no schema.
AjvAddSchema(schema, key, registry) ==
  IF schema.k = "arr"
  THEN IF schema.items = <<>> THEN AjvCompiled(registry, NoData)
       ELSE AjvThrew("schema must be object or boolean", registry)
  ELSE IF OwnProperty(schema, IdName).k \notin {"undefined", "str"}
  THEN AjvThrew("schema $id must be string", registry)
  ELSE IF IsRegistered(registry, key)
  THEN AjvThrew("schema with key or id already exists", registry)
  ELSE IF SchemaId(schema) # <<>> /\ IsRegistered(registry, SchemaId(schema))
  THEN AjvThrew("schema with key or id already exists", registry)
  ELSE IF ~MetaSchemaValid(schema)
  THEN AjvThrew("schema is invalid",
                WithRef(registry, IF SchemaId(schema) # <<>> THEN SchemaId(schema) ELSE key, schema))
  ELSE AjvCompiled([schemas |-> registry.schemas \cup {Entry(key, schema)},
                    refs |-> WithRef(registry, IF SchemaId(schema) # <<>> THEN SchemaId(schema) ELSE key,
                                     schema).refs],
                   NoData)

\* ajv.removeSchema(id)
AjvRemoveSchema(id, registry) ==
  [schemas |-> {e \in registry.schemas : e.id # id},
   refs |-> {e \in registry.refs : e.id # id}]

\* the JSON type names a value has for the keyword type
TypesOf(data) ==
  CASE data.k = "num" -> {<<"n", "u", "m", "b", "e", "r">>, <<"i", "n", "t", "e", "g", "e", "r">>}
    [] data.k = "str" -> {<<"s", "t", "r", "i", "n", "g">>}
    [] data.k = "bool" -> {<<"b", "o", "o", "l", "e", "a", "n">>}
    [] data.k = "null" -> {<<"n", "u", "l", "l">>}
    [] data.k = "obj" -> {<<"o", "b", "j", "e", "c", "t">>}
    [] data.k = "arr" -> {<<"a", "r", "r", "a", "y">>}
    [] OTHER -> {}

\* an error object of Ajv: instancePath, keyword and message
AjvError(keyword, message) == [instancePath |-> "", keyword |-> keyword, message |-> message]

\* the errors one schema of the chain gives for data (allErrors: true)
SchemaErrors(schema, data) ==
  IF schema.k = "bool"
  THEN IF schema.b THEN <<>> ELSE <<AjvError("false schema", "boolean schema is false")>>
  ELSE (IF OwnProperty(schema, TypeName).k = "str" /\ OwnProperty(schema, TypeName).s \notin TypesOf(data)
        THEN <<AjvError("type", "must be of the type")>> ELSE <<>>)
       \o
       (IF HasOwn(schema, ConstName) /\ ~StructurallyEqual(OwnProperty(schema, ConstName), data)
        THEN <<AjvError("const", "must be equal to constant")>> ELSE <<>>)

RECURSIVE ChainErrors(_, _, _)
ChainErrors(chain, i, data) ==
  IF i > Len(chain) THEN <<>>
  ELSE SchemaErrors(chain[i], data) \o ChainErrors(chain, i + 1, data)

\* validate(data): the errors (validate.errors), or the RangeError of a
\* schema that calls itself without end
RunValidate(validate, data) ==
  IF validate.loops THEN [threw |-> TRUE, message |-> "Maximum call stack size exceeded", errors |-> <<>>]
  ELSE [threw |-> FALSE, message |-> "", errors |-> ChainErrors(validate.chain, 1, data)]

\* a cache entry: Map keeps its keys in the order they were inserted
CacheEntry(schemaString, validate) == [key |-> schemaString, validate |-> validate]

\* schemaCache.get(schemaString): the position of the entry, 0 for none
CachePosition(cache, schemaString) ==
  IF \E i \in 1..Len(cache) : cache[i].key = schemaString
  THEN CHOOSE i \in 1..Len(cache) : cache[i].key = schemaString
  ELSE 0

\* nothing is evicted
EvictNone(cache) == cache

\* if (schemaCache.size >= MAX_CACHE_SIZE) delete the first key (one that
\* is not the empty string)
EvictOldest(cache) ==
  IF Len(cache) >= MAX_CACHE_SIZE /\ Head(cache).key # <<>> THEN Tail(cache) ELSE cache

\* what getOrCompileSchema leaves: the exception of ajv.compile or the
\* compiled schema, the cache and the registry of Ajv
Compilation(c, cache, schemaString) ==
  [threw |-> c.threw, message |-> c.message, validate |-> c.validate,
   cache |-> IF c.threw THEN cache ELSE Append(cache, CacheEntry(schemaString, c.validate)),
   registry |-> c.registry]

getOrCompileSchema(schemaString, schemaData, cache, registry) ==
  IF CachePosition(cache, schemaString) # 0
  THEN [threw |-> FALSE, message |-> "", validate |-> cache[CachePosition(cache, schemaString)].validate,
        cache |-> cache, registry |-> registry]
  ELSE Compilation(AjvCompile(schemaData, registry), EvictOldest(cache), schemaString)

\* an error of validateJsonSchema: the message is a prefix and what follows
SchemaValidationError(path, prefix, detail, keyword) ==
  [path |-> path, message |-> <<prefix, detail>>, keyword |-> keyword]

PositionedError(prefix, error) ==
  [path |-> "", message |-> <<prefix, error.message>>, keyword |-> "syntax",
   line |-> error.line, column |-> error.column]

\* formatAjvErrors
formatAjvErrors(errors) ==
  [i \in 1..Len(errors) |->
     SchemaValidationError(IF errors[i].instancePath = "" THEN "/" ELSE errors[i].instancePath,
                           "", errors[i].message, errors[i].keyword)]

\* what a call of the validator leaves: its result (or its exception), the
\* cache and the registry
Outcome(res, cache, registry) ==
  [threw |-> "", result |-> res, cache |-> cache, registry |-> registry]

Thrown(message, cache, registry) ==
  [threw |-> message, result |-> NoValidation, cache |-> cache, registry |-> registry]

\* the try block after getOrCompileSchema, and the catch
ValidateCompiled(g, run) ==
  IF g.threw
  THEN Outcome(ValidationResult(FALSE, <<SchemaValidationError("", "Schema compilation error: ", g.message, "schema")>>),
               g.cache, g.registry)
  ELSE IF run.threw
  THEN Outcome(ValidationResult(FALSE, <<SchemaValidationError("", "Schema compilation error: ", run.message, "schema")>>),
               g.cache, g.registry)
  ELSE IF run.errors = <<>> THEN Outcome(ValidationResult(TRUE, <<>>), g.cache, g.registry)
  ELSE Outcome(ValidationResult(FALSE, formatAjvErrors(run.errors)), g.cache, g.registry)

RunCompiled(g, data) ==
  ValidateCompiled(g, IF g.threw THEN [threw |-> FALSE, message |-> "", errors |-> <<>>]
                      ELSE RunValidate(g.validate, data))

\* validateJsonSchema that looks at the schema text first
ValidateParsedSchemaFirst(dataResult, schemaString, schemaResult, cache, registry) ==
  IF ~schemaResult.success
  THEN Outcome(ValidationResult(FALSE, <<PositionedError("Invalid JSON schema: ", schemaResult.error)>>),
               cache, registry)
  ELSE IF ~dataResult.success
  THEN Outcome(ValidationResult(FALSE, <<PositionedError("Invalid JSON data: ", dataResult.error)>>),
               cache, registry)
  ELSE RunCompiled(getOrCompileSchema(schemaString, schemaResult.data, cache, registry),
                   dataResult.data)

\* validateJsonSchema once both texts are parsed
ValidateParsed(dataResult, schemaString, schemaResult, cache, registry) ==
  IF ~dataResult.success
  THEN Outcome(ValidationResult(FALSE, <<PositionedError("Invalid JSON data: ", dataResult.error)>>),
               cache, registry)
  ELSE IF ~schemaResult.success
  THEN Outcome(ValidationResult(FALSE, <<PositionedError("Invalid JSON schema: ", schemaResult.error)>>),
               cache, registry)
  ELSE RunCompiled(getOrCompileSchema(schemaString, schemaResult.data, cache, registry),
                   dataResult.data)

validateJsonSchema(data, schema, cache, registry) ==
  ValidateParsed(safeJsonParse(data), schema, safeJsonParse(schema), cache, registry)

\* addSchema once ajv.addSchema returned or threw: the cache is cleared
\* after it returned
AddedSchema(a, cache) ==
  IF a.threw THEN Thrown(a.message, cache, a.registry)
  ELSE Outcome(NoValidation, <<>>, a.registry)

\* addSchema(schema, id) of a schema text; id is the empty string when no
\* id is given
AddParsed(schemaData, id, cache, registry) ==
  IF ~Truthy(schemaData) \/ ~TypeofObject(schemaData)
  THEN Thrown("Invalid schema", cache, registry)
  ELSE IF id = <<>> /\ SchemaId(schemaData) = <<>>
  THEN Thrown("Schema must have $id or id parameter must be provided", cache, registry)
  ELSE AddedSchema(AjvAddSchema(schemaData, IF id # <<>> THEN id ELSE SchemaId(schemaData), registry),
                   cache)

addSchema(schema, id, cache, registry) ==
  AddParsed(safeJsonParse(schema).data, id, cache, registry)

removeSchema(id, cache, registry) ==
  Outcome(NoValidation, <<>>, AjvRemoveSchema(id, registry))

clearSchemaCache == Outcome(NoValidation, <<>>, NoSchemas)

---------------------------------------------------------------------------
(* The state machine of the validator: the module keeps the cache and the  *)
(* Ajv instance; a caller holds a data text and a schema text and calls    *)
(* validateJsonSchema, addSchema, removeSchema and clearSchemaCache.       *)

\* how many calls a behaviour makes
MaxCalls == 3

\* the schema text {"const":n}
Numbered(n) == <<"{", "\"", "c", "o", "n", "s", "t", "\"", ":">> \o NatToText(n) \o <<"}">>

\* the cache after validateJsonSchema was called with the first n numbered
\* schemas
Filled(n) ==
  [i \in 1..n |-> CacheEntry(Numbered(i), AjvCompile(safeJsonParse(Numbered(i)).data, NoSchemas).validate)]

StringSchema == <<"{", "\"", "t", "y", "p", "e", "\"", ":", "\"", "s", "t", "r", "i", "n", "g", "\"", "}">>

NumberSchema == <<"{", "\"", "t", "y", "p", "e", "\"", ":", "\"", "n", "u", "m", "b", "e", "r", "\"", "}">>

\* {"$id":"a","type":"string"}
AddressSchema ==
  <<"{", "\"", "$", "i", "d", "\"", ":", "\"", "a", "\"", ",">> \o Tail(StringSchema)

IdA == <<"a">>

SchemaTexts ==
  { NumberSchema, StringSchema, AddressSchema, Numbered(1),
    <<"{", "\"", "$", "r", "e", "f", "\"", ":", "\"", "a", "\"", "}">>,
    <<"{", "\"", "$", "i", "d", "\"", ":", "\"", "s", "\"", ",">> \o Tail(NumberSchema),
    <<"{", "\"", "$", "i", "d", "\"", ":", "\"", "s", "\"", ",", "\"", "$", "r", "e", "f", "\"", ":", "\"", "a", "\"", "}">>,
    <<"{", "\"", "$", "i", "d", "\"", ":", "\"", "a", "\"", ",", "\"", "$", "r", "e", "f", "\"", ":", "\"", "a", "\"", "}">>,
    <<"{", "\"", "t", "y", "p", "e", "\"", ":", "\"", "n", "o", "p", "e", "\"", "}">>,
    <<"{", "\"", "$", "i", "d", "\"", ":", "\"", "a", "\"", ",", "\"", "t", "y", "p", "e", "\"", ":", "\"", "n", "o", "p", "e", "\"", "}">>,
    <<"{", "\"", "$", "i", "d", "\"", ":", "5", "}">>,
    <<"{", "\"", "b", "\"", ":", "1", "}">>,
    <<"{", "\"", "t", "y", "p", "e", "\"", ":", "\"", "n", "u", "m", "b", "e", "r", "\"", ",", "\"", "c", "o", "n", "s", "t", "\"", ":", "2", "}">>,
    <<"{", "}">>, <<"5">>, <<"n", "u", "l", "l">>, <<"[", "]">>, <<"[", "1", "]">>,
    <<"t", "r", "u", "e">>, <<"f", "a", "l", "s", "e">>,
    <<"{">>, <<"{", "\"", "t", "y", "p", "e", "\"", ":", "}">>, <<>>, <<" ">> }

DataTexts ==
  { <<"1">>, <<"2">>, <<"\"", "a", "\"">>, <<"{", "}">>, <<"n", "u", "l", "l">>,
    <<"1", "e", "9", "9", "9">>, <<"{">>, <<"[", "1", ",", "]">>, <<>>, <<"\n">> }

\* Ajv after addSchema('{"type":"string"}', "a")
AddressRegistered == AjvAddSchema(safeJsonParse(StringSchema).data, IdA, NoSchemas).registry

\* the texts vary one at a time; the cache is empty, or holds one schema
\* less than its limit, or is full
InitValidator ==
  /\ \/ dataText \in DataTexts /\ schemaText = NumberSchema
     \/ dataText = <<"1">> /\ schemaText \in SchemaTexts
     \/ dataText \in {<<"{">>, <<>>} /\ schemaText \in {<<"{">>, <<"5">>}
  /\ schemaCache \in {<<>>, Filled(MAX_CACHE_SIZE - 1), Filled(MAX_CACHE_SIZE)}
  /\ ajv \in {NoSchemas, AddressRegistered}
  /\ call = NoCall
  /\ calls = 0
  /\ DifferUnused
  /\ ParserUnused
  /\ ShareUnused

\* what a call leaves in the state
Returns(op, schema, id, o) ==
  /\ schemaCache' = o.cache
  /\ ajv' = o.registry
  /\ call' = [op |-> op, schema |-> schema, id |-> id, threw |-> o.threw, result |-> o.result,
              before |-> schemaCache, registry |-> ajv]
  /\ calls' = calls + 1
  /\ UNCHANGED <<dataText, schemaText, differVars, parserVars, shareVars>>

\* validateJsonSchema(data, schema) with the schema text of the caller, a
\* numbered schema that a full cache holds first, or one it does not hold
ValidateJsonSchema ==
  /\ calls < MaxCalls
  /\ \E schema \in {schemaText, Numbered(1), Numbered(MAX_CACHE_SIZE + 1)} :
       Returns("validateJsonSchema", schema, <<>>,
              validateJsonSchema(dataText, schema, schemaCache, ajv))

\* addSchema(schema) and addSchema(schema, "a")
AddSchema ==
  /\ calls < MaxCalls
  /\ \E schema \in {schemaText, AddressSchema}, id \in {<<>>, IdA} :
       Returns("addSchema", schema, id, addSchema(schema, id, schemaCache, ajv))

\* removeSchema("a")
RemoveSchema ==
  /\ calls < MaxCalls
  /\ Returns("removeSchema", <<>>, IdA, removeSchema(IdA, schemaCache, ajv))

ClearSchemaCache ==
  /\ calls < MaxCalls
  /\ Returns("clearSchemaCache", <<>>, <<>>, clearSchemaCache)

NextValidator == ValidateJsonSchema \/ AddSchema \/ RemoveSchema \/ ClearSchemaCache

SpecValidator == InitValidator /\ [][NextValidator]_vars

---------------------------------------------------------------------------
(* Properties of the schema validator                                      *)

SchemaCalled == call.op = "validateJsonSchema"

DataParses == safeJsonParse(dataText).success

SchemaParses == safeJsonParse(call.schema).success

\* the schema value of the last call
SchemaValue == safeJsonParse(call.schema).data

Member2(v, key) == IF v.k = "obj" /\ \E i \in 1..Len(v.keys) : v.keys[i] = key
                   THEN v.vals[CHOOSE i \in 1..Len(v.keys) : v.keys[i] = key]
                   ELSE NoData

\* a schema whose structure is invalid: no object and no boolean, a type
\* that names no type, an $id or a $ref that is no string, or a keyword
\* that is none
InvalidStructure(v) ==
  \/ v.k \notin {"obj", "bool"}
  \/ /\ v.k = "obj"
     /\ \/ Member2(v, TypeName).k \notin {"undefined", "str"}
        \/ (Member2(v, TypeName).k = "str" /\ Member2(v, TypeName).s \notin JsonTypes)
        \/ Member2(v, IdName).k \notin {"undefined", "str"}
        \/ Member2(v, RefName).k \notin {"undefined", "str"}
        \/ \E i \in 1..Len(v.keys) : v.keys[i] \notin {IdName, RefName, TypeName, ConstName}

\* the ids Ajv knew when the last call was made
KnownIds == {e.id : e \in call.registry.schemas \cup call.registry.refs}

\* a schema whose $ref names no schema Ajv knows
UnresolvedRef(v) ==
  /\ Member2(v, RefName).k = "str"
  /\ Member2(v, RefName).s \notin KnownIds

Errors == call.result.errors

\* C23: validateJsonSchema never throws and checks in order: a data text
\* that does not parse gives one error with keyword "syntax" and a message
\* starting "Invalid JSON data", also when the schema text is invalid too;
\* otherwise a schema text that does not parse gives "syntax" and "Invalid
\* JSON schema"; otherwise a schema that cannot be compiled (invalid
\* structure or unresolved $ref) gives keyword "schema"; valid = true comes
\* with no errors and valid = false with at least one.
ValidationOrder ==
  SchemaCalled =>
    /\ call.threw = ""
    /\ call.result.called
    /\ ~DataParses =>
         /\ ~call.result.valid /\ Len(Errors) = 1
         /\ Errors[1].keyword = "syntax" /\ Errors[1].message[1] = "Invalid JSON data: "
    /\ (DataParses /\ ~SchemaParses) =>
         /\ ~call.result.valid /\ Len(Errors) = 1
         /\ Errors[1].keyword = "syntax" /\ Errors[1].message[1] = "Invalid JSON schema: "
    /\ (DataParses /\ SchemaParses /\ (InvalidStructure(SchemaValue) \/ UnresolvedRef(SchemaValue))) =>
         /\ ~call.result.valid /\ Len(Errors) = 1
         /\ Errors[1].keyword = "schema"
    /\ call.result.valid => Errors = <<>>
    /\ ~call.result.valid => Len(Errors) >= 1

\* neither text parses, and the error is the one of the data text
ValidationOrderWitness ==
  /\ SchemaCalled
  /\ ~DataParses /\ ~SchemaParses
  /\ dataText = <<"{">> /\ call.schema = <<"{">>
  /\ Errors[1].message[1] = "Invalid JSON data: "
  /\ Errors[1].keyword = "syntax"

\* C24: after any call of addSchema, removeSchema or clearSchemaCache the
\* cache of compiled schemas is empty; and a schema that $refs an id Ajv
\* does not know (any more) yields valid = false with keyword "schema".
RegistryChangesInvalidate ==
  /\ call.op \in {"addSchema", "removeSchema", "clearSchemaCache"} => schemaCache = <<>>
  /\ (SchemaCalled /\ DataParses /\ SchemaParses /\ UnresolvedRef(SchemaValue)) =>
       (~call.result.valid /\ Errors[1].keyword = "schema")

\* the last call found its schema string in the cache
CacheHit == \E i \in 1..Len(call.before) : call.before[i].key = call.schema

\* C27: the cache never holds more than 100 compiled schemas; when a schema
\* string that is not cached is compiled while the cache holds 100 entries,
\* exactly one entry is removed first, the one inserted earliest; a lookup
\* of a cached schema string leaves the cache as it is, order included.
CacheBounded ==
  /\ Len(schemaCache) <= 100
  /\ (SchemaCalled /\ ~(DataParses /\ SchemaParses)) => schemaCache = call.before
  /\ (SchemaCalled /\ DataParses /\ SchemaParses) =>
       /\ CacheHit => schemaCache = call.before
       /\ (~CacheHit /\ Len(call.before) = 100) =>
            /\ Len(schemaCache) \in {99, 100}
            /\ SubSeq(schemaCache, 1, 99) = Tail(call.before)
            /\ Len(schemaCache) = 100 => schemaCache[100].key = call.schema
       /\ (~CacheHit /\ Len(call.before) < 100) =>
            /\ Len(schemaCache) \in {Len(call.before), Len(call.before) + 1}
            /\ SubSeq(schemaCache, 1, Len(call.before)) = call.before
            /\ Len(schemaCache) > Len(call.before) => schemaCache[Len(schemaCache)].key = call.schema

\* a full cache took a schema it did not hold and lost its first entry,
\* after an earlier call
CacheBoundedWitness ==
  /\ SchemaCalled /\ ~CacheHit
  /\ Len(call.before) = 100 /\ Len(schemaCache) = 100
  /\ call.before[1].key = Numbered(1)
  /\ schemaCache[1].key = Numbered(2)
  /\ schemaCache[100].key = Numbered(101)
  /\ calls >= 2

=============================================================================
